---- MODULE Spec2Model ----
(***************************************************************************)
(* Model of opensafely-core/pipeline: construction of a Pipeline from a    *)
(* raw (already parsed) document tree, pipeline/models.py.                  *)
(*                                                                         *)
(* Strings are tuples of one-character strings, so that tokenising,        *)
(* partitioning and pattern checks are computed and not assumed.           *)
(* Raw tree nodes are records tagged by their shape in field t.            *)
(* Construction is followed validator by validator, in the order in which  *)
(* pydantic v2 runs them: the mode="before" model validators in reverse    *)
(* order of definition, then the fields in declaration order (their errors *)
(* are collected), then the mode="after" model validators in order of      *)
(* definition.                                                             *)
(***************************************************************************)
EXTENDS Integers, Sequences, FiniteSets, TLC

VARIABLES
    doc,      \* the raw input tree given to Pipeline(**doc); never changed
    values,   \* the mapping handed from one mode="before" validator to the next
    pc,       \* the validator that runs next
    errors,   \* the line errors collected while the fields are validated
    model,    \* the fields validated so far (the Pipeline under construction)
    result,   \* outcome of the construction: none yet, a Pipeline, or an exception
    calls     \* the calls made to get_feature_flags_for_version by a client of
              \* the resolver alone, each with what it returned or raised

vars == <<doc, values, pc, errors, model, result, calls>>

----------------------------------------------------------------------------
(* Bounds of the model *)

\* the longest actions mapping of an input document
MaxActions == 2

\* the highest version number an input document declares
MaxVersion == 5

\* the most calls a client makes to the feature flag resolver
MaxCalls == 3

----------------------------------------------------------------------------
(* Strings *)

WS == {" ", "\t", "\n", "\r"}

StartsWith(s, p) ==
    /\ Len(s) >= Len(p)
    /\ SubSeq(s, 1, Len(p)) = p

EndsWith(s, p) ==
    /\ Len(s) >= Len(p)
    /\ SubSeq(s, Len(s) - Len(p) + 1, Len(s)) = p

\* p in s, for strings
Contains(s, p) ==
    \E i \in 1..(Len(s) - Len(p) + 1) : SubSeq(s, i, i + Len(p) - 1) = p

\* s with its first i characters dropped
Drop(s, i) == SubSeq(s, i + 1, Len(s))

\* index of the first occurrence of character c in s, 0 when there is none
FirstIndex(s, c) ==
    IF \E i \in 1..Len(s) : s[i] = c
    THEN CHOOSE i \in 1..Len(s) : s[i] = c /\ \A j \in 1..(i - 1) : s[j] # c
    ELSE 0

\* str.partition(sep) for a one-character sep: <<head, sep, tail>>
Partition(s, c) ==
    LET i == FirstIndex(s, c)
    IN  IF i = 0 THEN <<s, <<>>, <<>>>>
        ELSE <<SubSeq(s, 1, i - 1), <<c>>, Drop(s, i)>>

\* str.split(sep) for a one-character sep
RECURSIVE SplitOn(_, _)
SplitOn(s, c) ==
    LET i == FirstIndex(s, c)
    IN  IF i = 0 THEN <<s>>
        ELSE <<SubSeq(s, 1, i - 1)>> \o SplitOn(Drop(s, i), c)

\* sep.join(parts) for a one-character sep
RECURSIVE JoinWith(_, _)
JoinWith(parts, c) ==
    IF parts = <<>> THEN <<>>
    ELSE IF Len(parts) = 1 THEN parts[1]
    ELSE parts[1] \o <<c>> \o JoinWith(Tail(parts), c)

\* the length of the longest prefix of s made of non-whitespace characters
RECURSIVE NonWsRun(_)
NonWsRun(s) ==
    IF s = <<>> \/ s[1] \in WS THEN 0 ELSE 1 + NonWsRun(Tail(s))

----------------------------------------------------------------------------
(* shlex.split(s): POSIX word splitting with quotes and escapes.           *)
(* mode: "none" between words, "word" inside a word, "sq" / "dq" inside     *)
(* single / double quotes, "esc" after a backslash in a word, "escdq"      *)
(* after a backslash inside double quotes.                                 *)

\* the first index from i on at which s has a character of stops, Len(s) + 1
\* if there is none
NextIn(s, i, stops) ==
    IF \A j \in i..Len(s) : s[j] \notin stops THEN Len(s) + 1
    ELSE CHOOSE j \in i..Len(s) : s[j] \in stops /\ \A k \in i..(j - 1) : s[k] \notin stops

\* a run of characters that are all handled alike is consumed in one step
RECURSIVE ShlexScan(_, _, _, _, _)
ShlexScan(s, i, mode, tok, out) ==
    IF i > Len(s)
    THEN CASE mode = "none" -> [ok |-> TRUE, parts |-> out]
           [] mode = "word" -> [ok |-> TRUE, parts |-> Append(out, tok)]
           [] OTHER         -> [ok |-> FALSE, parts |-> <<>>]
    ELSE LET c == s[i]
         IN  CASE mode \in {"none", "word"} ->
                    IF c \in WS
                    THEN IF mode = "word"
                         THEN ShlexScan(s, i + 1, "none", <<>>, Append(out, tok))
                         ELSE ShlexScan(s, i + 1, "none", <<>>, out)
                    ELSE IF c = "'" THEN ShlexScan(s, i + 1, "sq", tok, out)
                    ELSE IF c = "\"" THEN ShlexScan(s, i + 1, "dq", tok, out)
                    ELSE IF c = "\\" THEN ShlexScan(s, i + 1, "esc", tok, out)
                    ELSE ShlexScan(s, NextIn(s, i, WS \cup {"'", "\"", "\\"}), "word",
                                   tok \o SubSeq(s, i, NextIn(s, i, WS \cup {"'", "\"", "\\"}) - 1),
                                   out)
               [] mode = "sq" ->
                    IF c = "'" THEN ShlexScan(s, i + 1, "word", tok, out)
                    ELSE ShlexScan(s, NextIn(s, i, {"'"}), "sq",
                                   tok \o SubSeq(s, i, NextIn(s, i, {"'"}) - 1), out)
               [] mode = "dq" ->
                    IF c = "\"" THEN ShlexScan(s, i + 1, "word", tok, out)
                    ELSE IF c = "\\" THEN ShlexScan(s, i + 1, "escdq", tok, out)
                    ELSE ShlexScan(s, NextIn(s, i, {"\"", "\\"}), "dq",
                                   tok \o SubSeq(s, i, NextIn(s, i, {"\"", "\\"}) - 1), out)
               [] mode = "esc" ->
                    ShlexScan(s, i + 1, "word", Append(tok, c), out)
               [] OTHER ->
                    IF c \in {"\"", "\\"}
                    THEN ShlexScan(s, i + 1, "dq", Append(tok, c), out)
                    ELSE ShlexScan(s, i + 1, "dq", tok \o <<"\\", c>>, out)

\* [ok |-> FALSE] stands for the ValueError shlex raises on an unclosed quote
\* or a trailing backslash
ShlexSplit(s) == ShlexScan(s, 1, "none", <<>>, <<>>)

----------------------------------------------------------------------------
(* posixpath.normpath and assert_valid_glob_pattern (validation.py)        *)

RECURSIVE NormComps(_, _, _)
NormComps(comps, initial_slashes, new_comps) ==
    IF comps = <<>> THEN new_comps
    ELSE LET comp == comps[1]
             rest == Tail(comps)
         IN  IF comp = <<>> \/ comp = <<".">>
             THEN NormComps(rest, initial_slashes, new_comps)
             ELSE IF \/ comp # <<".", ".">>
                     \/ (initial_slashes = 0 /\ new_comps = <<>>)
                     \/ (new_comps # <<>> /\ new_comps[Len(new_comps)] = <<".", ".">>)
             THEN NormComps(rest, initial_slashes, Append(new_comps, comp))
             ELSE IF new_comps # <<>>
             THEN NormComps(rest, initial_slashes, SubSeq(new_comps, 1, Len(new_comps) - 1))
             ELSE NormComps(rest, initial_slashes, new_comps)

normpath(path) ==
    IF path = <<>> THEN <<".">>
    ELSE LET initial_slashes ==
                 IF ~StartsWith(path, <<"/">>) THEN 0
                 ELSE IF StartsWith(path, <<"/", "/">>) /\ ~StartsWith(path, <<"/", "/", "/">>)
                 THEN 2 ELSE 1
             joined == JoinWith(NormComps(SplitOn(path, "/"), initial_slashes, <<>>), "/")
             full == IF initial_slashes = 2 THEN <<"/", "/">> \o joined
                     ELSE IF initial_slashes = 1 THEN <<"/">> \o joined
                     ELSE joined
         IN  IF full = <<>> THEN <<".">> ELSE full

\* PurePosixPath(p).is_absolute() or PureWindowsPath(p).is_absolute()
DriveLetters ==
    {"a", "b", "c", "d", "e", "f", "g", "h", "i", "j", "k", "l", "m", "n", "o", "p", "q", "r", "s", "t", "u", "v", "w", "x", "y", "z",
     "A", "B", "C", "D", "E", "F", "G", "H", "I", "J", "K", "L", "M", "N", "O", "P", "Q", "R", "S", "T", "U", "V", "W", "X", "Y", "Z"}

is_absolute(pattern) ==
    \/ StartsWith(pattern, <<"/">>)
    \/ (Len(pattern) >= 3 /\ pattern[1] \in DriveLetters /\ pattern[2] = ":" /\ pattern[3] = "/")

metadata == <<"m", "e", "t", "a", "d", "a", "t", "a">>

\* assert_valid_glob_pattern with the absolute path check moved before the
\* check of the normal form
glob_pattern_absolute_first(pattern) ==
    IF Contains(pattern, <<"\\">>) THEN "contains back slashes"
    ELSE IF Contains(pattern, <<"*", "*">>) THEN "contains '**'"
    ELSE IF Contains(pattern, <<"?">>) THEN "contains '?'"
    ELSE IF Contains(pattern, <<"[">>) THEN "contains '['"
    ELSE IF EndsWith(pattern, <<"/">>) THEN "looks like a directory"
    ELSE IF is_absolute(pattern) THEN "is an absolute path"
    ELSE IF normpath(pattern) # pattern THEN "is not in standard form"
    ELSE IF pattern = metadata \/ StartsWith(pattern, metadata \o <<"/">>)
         THEN "should not include the metadata directory"
    ELSE ""

\* the reason of the InvalidPatternError raised, "" when the pattern is valid
assert_valid_glob_pattern(pattern) ==
    IF Contains(pattern, <<"\\">>) THEN "contains back slashes"
    ELSE IF Contains(pattern, <<"*", "*">>) THEN "contains '**'"
    ELSE IF Contains(pattern, <<"?">>) THEN "contains '?'"
    ELSE IF Contains(pattern, <<"[">>) THEN "contains '['"
    ELSE IF EndsWith(pattern, <<"/">>) THEN "looks like a directory"
    ELSE IF normpath(pattern) # pattern THEN "is not in standard form"
    ELSE IF pattern = metadata \/ StartsWith(pattern, metadata \o <<"/">>)
         THEN "should not include the metadata directory"
    ELSE IF is_absolute(pattern) THEN "is an absolute path"
    ELSE ""

----------------------------------------------------------------------------
(* Raw tree nodes *)

Absent == [t |-> "absent"]
Null == [t |-> "null"]
Str(s) == [t |-> "str", s |-> s]
Num(n) == [t |-> "num", n |-> n]
NonNumeric == [t |-> "str", s |-> <<"t", "e", "s", "t">>]
List(xs) == [t |-> "list", items |-> xs]
\* an ordered mapping: items is the sequence of its (key, value) pairs
Map(items) == [t |-> "map", items |-> items]
KV(k, v) == [k |-> k, v |-> v]

\* the raw mapping of one action
ActionMap(run, needs, outputs) ==
    [t |-> "map", run |-> run, needs |-> needs, outputs |-> outputs]

\* the raw mapping of the expectations section
ExpectationsMap(population_size) ==
    [t |-> "map", population_size |-> population_size]

----------------------------------------------------------------------------
(* Feature flags (pipeline/features.py; its table is the one asserted by   *)
(* tests/test_features.py)                                                 *)

LATEST_VERSION == 4

\* a resolver whose EXPECTATIONS_POPULATION stays on from version 3
flags_expectations_from_3(version) ==
    IF version > LATEST_VERSION
    THEN [ok |-> FALSE, latest |-> LATEST_VERSION, got |-> version]
    ELSE [ok |-> TRUE,
          UNIQUE_OUTPUT_PATH |-> version >= 2,
          EXPECTATIONS_POPULATION |-> version >= 3,
          REMOVE_SUPPORT_FOR_COHORT_EXTRACTOR |-> version >= 4]

get_feature_flags_for_version(version) ==
    IF version > LATEST_VERSION
    THEN [ok |-> FALSE, latest |-> LATEST_VERSION, got |-> version]
    ELSE [ok |-> TRUE,
          UNIQUE_OUTPUT_PATH |-> version >= 2,
          EXPECTATIONS_POPULATION |-> version = 3,
          REMOVE_SUPPORT_FOR_COHORT_EXTRACTOR |-> version >= 4]

----------------------------------------------------------------------------
(* Errors and outcomes. The msg of an error is the fixed text of the        *)
(* message the code raises, written without its backquotes and without the *)
(* names it interpolates, which are carried by action and detail.          *)

\* one line of a ValidationError: the text of the ValueError and what it names
Err(msg, action, detail) == [msg |-> msg, action |-> action, detail |-> detail]

NoResult == [kind |-> "none"]
\* a ValidationError carrying the collected line errors
Invalid(errs) == [kind |-> "ValidationError", errors |-> errs]
\* an exception that is no ValueError and so is not turned into a ValidationError
Crash(exc) == [kind |-> "crash", exc |-> exc]
Built(p) == [kind |-> "Pipeline", pipeline |-> p]

\* outcome of validating one node: an escaping exception, line errors, or a value
Escapes(exc) == [crash |-> exc, errs |-> <<>>, val |-> Null]
Fails(errs) == [crash |-> "", errs |-> errs, val |-> Null]
Valid(v) == [crash |-> "", errs |-> <<>>, val |-> v]

\* float(value) succeeds
IsFloat(v) == v.t = "num"

----------------------------------------------------------------------------
(* Outputs (models.py, class Outputs)                                      *)

\* Outputs.model_fields, in declaration order
OutputTiers == <<"highly_sensitive", "moderately_sensitive", "minimally_sensitive">>

\* the reasons for which the patterns of one tier are refused, in input order
BadFilenames(items) ==
    SelectSeq(items, LAMBDA kv : assert_valid_glob_pattern(kv.v.s) # "")

\* Outputs.validate_output_filenames_are_valid (mode="before"): the tiers in
\* input order; a tier that is no mapping has no .items()
NotPermitted(filename, reason) ==
    Fails(<<Err("Output path is not permitted", <<>>, <<filename, reason>>)>>)

RECURSIVE ScanTiers(_)
ScanTiers(tiers) ==
    IF tiers = <<>> THEN Valid(Null)
    ELSE IF tiers[1].v.t # "map" THEN Escapes("AttributeError")
    ELSE IF BadFilenames(tiers[1].v.items) # <<>>
    THEN NotPermitted(BadFilenames(tiers[1].v.items)[1].v.s,
                      assert_valid_glob_pattern(BadFilenames(tiers[1].v.items)[1].v.s))
    ELSE ScanTiers(Tail(tiers))

validate_output_filenames_are_valid(outputs) ==
    IF outputs.t # "map" THEN Escapes("AttributeError") ELSE ScanTiers(outputs.items)

\* the tiers of the input that are fields of Outputs (model_fields_set); a key
\* that is no field is ignored
FieldsSet(outputs) ==
    {OutputTiers[i] : i \in {j \in 1..Len(OutputTiers) :
        \E n \in 1..Len(outputs.items) : outputs.items[n].k = OutputTiers[j]}}

TierValue(outputs, tier) ==
    outputs.items[CHOOSE n \in 1..Len(outputs.items) : outputs.items[n].k = tier].v.items

\* a tier as the validated model holds it: (output id, filename) pairs
TierDict(items) == [n \in 1..Len(items) |-> KV(items[n].k, items[n].v.s)]

\* Outputs.dict(exclude_unset=True): the set tiers in field order, each with its
\* (output id, filename) pairs
RECURSIVE OutputsDict(_, _)
OutputsDict(outputs, i) ==
    IF i > Len(OutputTiers) THEN <<>>
    ELSE IF OutputTiers[i] \in FieldsSet(outputs)
    THEN <<KV(OutputTiers[i], TierDict(TierValue(outputs, OutputTiers[i])))>>
         \o OutputsDict(outputs, i + 1)
    ELSE OutputsDict(outputs, i + 1)

\* Outputs.at_least_one_output (mode="after")
at_least_one_output(outputs) ==
    IF FieldsSet(outputs) = {}
    THEN Fails(<<Err("must specify at least one output of: highly_sensitive, moderately_sensitive, minimally_sensitive",
                     <<>>, <<>>)>>)
    ELSE Valid(OutputsDict(outputs, 1))

\* construction of Outputs from the raw outputs value of an action
OutputsAfter(outputs, before) ==
    IF before.crash # "" \/ before.errs # <<>> THEN before
    ELSE at_least_one_output(outputs)

ValidateOutputs(outputs) ==
    IF outputs.t = "absent" THEN Fails(<<Err("Field required", <<>>, <<"outputs">>)>>)
    ELSE OutputsAfter(outputs, validate_output_filenames_are_valid(outputs))

\* Outputs.__len__: the number of tiers that were set
OutputsLen(outputs) == Len(outputs)

\* every filename of a validated Outputs, tier by tier in field order
RECURSIVE AllFilenames(_)
AllFilenames(outputs) ==
    IF outputs = <<>> THEN <<>>
    ELSE [n \in 1..Len(outputs[1].v) |-> outputs[1].v[n].v] \o AllFilenames(Tail(outputs))

----------------------------------------------------------------------------
(* Action (models.py, class Action)                                        *)

\* Action.parse_run_string (mode="before" on run)
\* the check of parts[0].partition(":") = <<name, _, version>>
CheckVersion(run, name, version) ==
    IF version = <<>>
    THEN Fails(<<Err("must have a version specified", <<>>, <<name>>)>>)
    ELSE Valid(run)

\* sp is shlex.split(run)
ParseParts(run, sp) ==
    IF ~sp.ok THEN Fails(<<Err("No closing quotation", <<>>, <<>>)>>)
    ELSE IF sp.parts = <<>> THEN Escapes("IndexError")
    ELSE CheckVersion(run, Partition(sp.parts[1], ":")[1], Partition(sp.parts[1], ":")[3])

parse_run_string(run) == ParseParts(run, ShlexSplit(run))

ValidateRun(run) ==
    IF run.t = "absent" THEN Fails(<<Err("Field required", <<>>, <<"run">>)>>)
    ELSE parse_run_string(run.s)

\* needs: List[str] = []
ValidateNeeds(needs) ==
    IF needs.t = "absent" THEN <<>>
    ELSE [n \in 1..Len(needs.items) |-> needs.items[n].s]

\* construction of one Action: the fields run, needs, outputs in declaration
\* order; an escaping exception ends it at once, line errors are collected
ActionOf(config, r, o) ==
    IF r.crash # "" THEN r
    ELSE IF o.crash # "" THEN o
    ELSE IF r.errs \o o.errs # <<>> THEN Fails(r.errs \o o.errs)
    ELSE Valid([run |-> r.val, needs |-> ValidateNeeds(config.needs), outputs |-> o.val])

ValidateAction(config) ==
    IF config.t # "map" THEN Fails(<<Err("Input should be a valid dictionary", <<>>, <<>>)>>)
    ELSE ActionOf(config, ValidateRun(config.run), ValidateOutputs(config.outputs))

\* the line errors of an action, each naming the action
Located(errs, name) == [n \in 1..Len(errs) |-> [errs[n] EXCEPT !.action = name]]

\* construction of Dict[str, Action]: the actions in declaration order
RECURSIVE ValidateActionsDict(_, _, _)
\* a is the outcome of constructing the first of actions
DictStep(actions, errs, vals, a) ==
    IF a.crash # "" THEN a
    ELSE ValidateActionsDict(Tail(actions),
                             errs \o Located(a.errs, actions[1].k),
                             IF a.errs = <<>>
                             THEN Append(vals, KV(actions[1].k, a.val))
                             ELSE vals)

ValidateActionsDict(actions, errs, vals) ==
    IF actions = <<>>
    THEN IF errs # <<>> THEN Fails(errs) ELSE Valid(vals)
    ELSE DictStep(actions, errs, vals, ValidateAction(actions[1].v))

----------------------------------------------------------------------------
(* Pipeline: the mode="before" model validators (models.py)                *)

\* Pipeline.validate_version_exists
validate_version_exists(vals) ==
    IF vals.version.t # "absent" THEN Valid(vals)
    ELSE Fails(<<Err("Project file must have a version attribute", <<>>,
                     <<LATEST_VERSION>>)>>)

\* Pipeline.validate_actions_run: config["run"] == "" for each action in order
RECURSIVE ScanActionsRun(_)
ScanActionsRun(actions) ==
    IF actions = <<>> THEN ""
    ELSE LET config == actions[1].v
         IN  IF config.t = "null" THEN "TypeError"
             ELSE IF config.run.t = "absent" THEN "KeyError"
             ELSE IF config.run = Str(<<>>) THEN "empty"
             ELSE ScanActionsRun(Tail(actions))

\* the action at which validate_actions_run stops
FirstEmptyRun(actions) ==
    LET n == CHOOSE n \in 1..Len(actions) :
                 /\ ScanActionsRun(SubSeq(actions, n, Len(actions))) = "empty"
                 /\ actions[n].v.run = Str(<<>>)
                 /\ ScanActionsRun(SubSeq(actions, 1, n - 1)) = ""
    IN  actions[n].k

validate_actions_run(vals) ==
    LET found == ScanActionsRun(vals.actions)
    IN  IF found = "" THEN Valid(vals)
        ELSE IF found = "empty"
        THEN Fails(<<Err("run must have a value, action has an empty run key",
                         FirstEmptyRun(vals.actions), <<>>)>>)
        ELSE Escapes(found)

\* validate_expectations_per_version defaulting with values.setdefault: a given
\* expectations section is kept
expectations_setdefault(vals) ==
    IF ~IsFloat(vals.version) THEN Valid(vals)
    ELSE IF ~get_feature_flags_for_version(vals.version.n).ok
    THEN Fails(<<Err("The latest version is, but got", <<>>,
                     <<LATEST_VERSION, vals.version.n>>)>>)
    ELSE IF ~get_feature_flags_for_version(vals.version.n).EXPECTATIONS_POPULATION
    THEN IF vals.expectations.t = "absent"
              \/ vals.expectations.population_size.t = "absent"
         THEN Valid([vals EXCEPT !.expectations = ExpectationsMap(Num(1000))])
         ELSE Valid(vals)
    ELSE IF vals.expectations.t = "absent"
    THEN Fails(<<Err("Project must include expectations section", <<>>, <<>>)>>)
    ELSE IF vals.expectations.population_size.t = "absent"
    THEN Fails(<<Err("Project expectations section must include population_size section",
                     <<>>, <<>>)>>)
    ELSE Valid(vals)

\* validate_expectations_per_version without its check of population_size
expectations_without_size_check(vals) ==
    IF ~IsFloat(vals.version) THEN Valid(vals)
    ELSE IF ~get_feature_flags_for_version(vals.version.n).ok
    THEN Fails(<<Err("The latest version is, but got", <<>>,
                     <<LATEST_VERSION, vals.version.n>>)>>)
    ELSE IF ~get_feature_flags_for_version(vals.version.n).EXPECTATIONS_POPULATION
    THEN Valid([vals EXCEPT !.expectations = ExpectationsMap(Num(1000))])
    ELSE IF vals.expectations.t = "absent"
    THEN Fails(<<Err("Project must include expectations section", <<>>, <<>>)>>)
    ELSE Valid(vals)

\* validate_expectations_per_version taking the flags of the latest version for
\* a version beyond it
expectations_clamped_version(vals) ==
    IF ~IsFloat(vals.version) THEN Valid(vals)
    ELSE IF ~get_feature_flags_for_version(vals.version.n).ok
    THEN Valid([vals EXCEPT !.expectations = ExpectationsMap(Num(1000))])
    ELSE IF ~get_feature_flags_for_version(vals.version.n).EXPECTATIONS_POPULATION
    THEN Valid([vals EXCEPT !.expectations = ExpectationsMap(Num(1000))])
    ELSE IF vals.expectations.t = "absent"
    THEN Fails(<<Err("Project must include expectations section", <<>>, <<>>)>>)
    ELSE IF vals.expectations.population_size.t = "absent"
    THEN Fails(<<Err("Project expectations section must include population_size section",
                     <<>>, <<>>)>>)
    ELSE Valid(vals)

\* Pipeline.validate_expectations_per_version
validate_expectations_per_version(vals) ==
    IF ~IsFloat(vals.version) THEN Valid(vals)
    ELSE LET feat == get_feature_flags_for_version(vals.version.n)
         IN  IF ~feat.ok
             THEN Fails(<<Err("The latest version is, but got", <<>>,
                              <<feat.latest, feat.got>>)>>)
             ELSE IF ~feat.EXPECTATIONS_POPULATION
             THEN Valid([vals EXCEPT !.expectations = ExpectationsMap(Num(1000))])
             ELSE IF vals.expectations.t = "absent"
             THEN Fails(<<Err("Project must include expectations section", <<>>, <<>>)>>)
             ELSE IF vals.expectations.population_size.t = "absent"
             THEN Fails(<<Err("Project expectations section must include population_size section",
                              <<>>, <<>>)>>)
             ELSE Valid(vals)

----------------------------------------------------------------------------
(* Pipeline: the fields and their validators                               *)

\* Pipeline.validate_version_value (mode="before" on version)
validate_version_value(value) ==
    IF IsFloat(value) THEN Valid(value.n)
    ELSE Fails(<<Err("version must be a number between 1 and", <<>>, <<LATEST_VERSION>>)>>)

\* Expectations.validate_population_size (mode="before" on population_size)
validate_population_size(population_size) ==
    IF population_size.t = "num" THEN Valid(population_size.n)
    ELSE Fails(<<Err("Project expectations population size must be a number", <<>>, <<>>)>>)

\* construction of the field expectations: Expectations
ValidateExpectations(expectations) ==
    IF expectations.t = "absent"
    THEN Fails(<<Err("Field required", <<>>, <<"expectations">>)>>)
    ELSE IF expectations.population_size.t = "absent"
    THEN Fails(<<Err("Field required", <<>>, <<"population_size">>)>>)
    ELSE LET ps == validate_population_size(expectations.population_size)
         IN  IF ps.errs # <<>> THEN ps ELSE Valid([population_size |-> ps.val])

\* validate_unique_commands recording a name before looking the Command up: the
\* first action already finds its own Command
unique_commands_append_first(actions) ==
    IF actions = <<>> THEN Valid(actions)
    ELSE Fails(<<Err("has the same 'run' command as other actions",
                     actions[1].k, <<actions[1].k>>)>>)

\* validate_unique_commands with Commands compared by their shell tokens
unique_commands_by_parts(actions) ==
    LET Dup(j) == \E i \in 1..(j - 1) :
                      ShlexSplit(actions[i].v.run).parts = ShlexSplit(actions[j].v.run).parts
    IN  IF \A j \in 1..Len(actions) : ~Dup(j) THEN Valid(actions)
        ELSE LET j == CHOOSE j \in 1..Len(actions) :
                          Dup(j) /\ \A m \in 1..(j - 1) : ~Dup(m)
                 seen == SelectSeq(SubSeq(actions, 1, j - 1),
                                   LAMBDA a : ShlexSplit(a.v.run).parts
                                                  = ShlexSplit(actions[j].v.run).parts)
             IN  Fails(<<Err("has the same 'run' command as other actions",
                             actions[j].k, [n \in 1..Len(seen) |-> seen[n].k])>>)

\* Pipeline.validate_unique_commands: the first action, in declaration order,
\* whose Command was seen before, with the names recorded for that Command
validate_unique_commands(actions) ==
    LET Dup(j) == \E i \in 1..(j - 1) : actions[i].v.run = actions[j].v.run
    IN  IF \A j \in 1..Len(actions) : ~Dup(j) THEN Valid(actions)
        ELSE LET j == CHOOSE j \in 1..Len(actions) :
                          Dup(j) /\ \A m \in 1..(j - 1) : ~Dup(m)
                 seen == SelectSeq(SubSeq(actions, 1, j - 1),
                                   LAMBDA a : a.v.run = actions[j].v.run)
             IN  Fails(<<Err("has the same 'run' command as other actions",
                             actions[j].k, [n \in 1..Len(seen) |-> seen[n].k])>>)

\* the needs of an action that contain a space
Incorrect(action) == SelectSeq(action.needs, LAMBDA dep : Contains(dep, <<" ">>))

\* Pipeline.validate_needs_are_comma_delimited
validate_needs_are_comma_delimited(actions) ==
    LET bad == SelectSeq(actions, LAMBDA a : Incorrect(a.v) # <<>>)
    IN  IF bad = <<>> THEN Valid(actions)
        ELSE Fails(<<Err("needs actions should be separated with commas", <<>>,
                         [n \in 1..Len(bad) |-> KV(bad[n].k, Incorrect(bad[n].v))])>>)

Range(seq) == {seq[n] : n \in 1..Len(seq)}

Keys(actions) == {actions[n].k : n \in 1..Len(actions)}

\* set(action.needs) - set(actions)
UnknownNeeds(action, actions) == Range(action.needs) \ Keys(actions)

\* the orders in which a set may be iterated
Orders(S) == {f \in [1..Cardinality(S) -> S] : \A i, j \in 1..Cardinality(S) : f[i] = f[j] => i = j}

\* the lines of the message of validate_needs_exist: the failing actions in
\* declaration order, each with its unknown needs in the iteration order of a set
RECURSIVE MissingLines(_, _)
MissingLines(rest, actions) ==
    IF rest = <<>> THEN {<<>>}
    ELSE LET u == UnknownNeeds(rest[1].v, actions)
         IN  IF u = {} THEN MissingLines(Tail(rest), actions)
             ELSE {<<KV(rest[1].k, o)>> \o m :
                       o \in Orders(u), m \in MissingLines(Tail(rest), actions)}

\* validate_needs_exist returning before its check
needs_exist_unchecked(actions) == {Valid(actions)}

\* Pipeline.validate_needs_exist: the outcomes it can have
validate_needs_exist(actions) ==
    IF \A n \in 1..Len(actions) : UnknownNeeds(actions[n].v, actions) = {}
    THEN {Valid(actions)}
    ELSE {Fails(<<Err("One or more actions is referencing unknown actions in its needs list",
                      <<>>, lines)>>) : lines \in MissingLines(actions, actions)}

----------------------------------------------------------------------------
(* Pipeline: the mode="after" model validators                             *)

\* cohortextractor_pat.match(raw): cohortextractor:\S+ generate_cohort
cohortextractor_pat(raw) ==
    /\ StartsWith(raw, <<"c", "o", "h", "o", "r", "t", "e", "x", "t", "r", "a", "c", "t", "o", "r", ":">>)
    /\ LET rest == Drop(raw, Len(<<"c", "o", "h", "o", "r", "t", "e", "x", "t", "r", "a", "c", "t", "o", "r", ":">>))
           k == NonWsRun(rest)
       IN  k >= 1 /\ StartsWith(Drop(rest, k), <<" ", "g", "e", "n", "e", "r", "a", "t", "e", "_", "c", "o", "h", "o", "r", "t">>)

\* databuilder_pat.match(raw): databuilder|ehrql:\S+ generate[-_]dataset
databuilder_pat(raw) ==
    \/ StartsWith(raw, <<"d", "a", "t", "a", "b", "u", "i", "l", "d", "e", "r">>)
    \/ /\ StartsWith(raw, <<"e", "h", "r", "q", "l", ":">>)
       /\ LET rest == Drop(raw, Len(<<"e", "h", "r", "q", "l", ":">>))
              k == NonWsRun(rest)
              tail == Drop(rest, k)
          IN  /\ k >= 1
              /\ StartsWith(tail, <<" ", "g", "e", "n", "e", "r", "a", "t", "e">>)
              /\ Len(tail) > Len(<<" ", "g", "e", "n", "e", "r", "a", "t", "e">>)
              /\ tail[Len(<<" ", "g", "e", "n", "e", "r", "a", "t", "e">>) + 1] \in {"-", "_"}
              /\ StartsWith(Drop(tail, Len(<<" ", "g", "e", "n", "e", "r", "a", "t", "e">>) + 1), <<"d", "a", "t", "a", "s", "e", "t">>)

\* validate_cohortextractor_outputs(action_id, action)
validate_cohortextractor_outputs(action_id, action) ==
    IF OutputsLen(action.outputs) # 1
    THEN <<Err("A generate_cohort action must have exactly one output", action_id,
               <<OutputsLen(action.outputs)>>)>>
    ELSE <<>>

\* validate_databuilder_outputs(action_id, action)
validate_databuilder_outputs(action_id, action) ==
    IF OutputsLen(action.outputs) # 1
    THEN <<Err("A generate-dataset action must have exactly one output", action_id,
               <<OutputsLen(action.outputs)>>)>>
    ELSE IF ~Contains(action.run, AllFilenames(action.outputs)[1])
    THEN <<Err("--output in run command and outputs must match", action_id, <<>>)>>
    ELSE <<>>

\* the validators applied to one action, in the order of the validators dict
ActionValidators(action_id, action) ==
    (IF cohortextractor_pat(action.run)
     THEN validate_cohortextractor_outputs(action_id, action) ELSE <<>>)
    \o (IF databuilder_pat(action.run)
        THEN validate_databuilder_outputs(action_id, action) ELSE <<>>)

\* Pipeline.validate_actions: the first error raised, actions in declaration order
RECURSIVE validate_actions(_)
validate_actions(actions) ==
    IF actions = <<>> THEN <<>>
    ELSE LET e == ActionValidators(actions[1].k, actions[1].v)
         IN  IF e # <<>> THEN <<e[1]>> ELSE validate_actions(Tail(actions))

\* every output filename of the pipeline in the order validate_outputs_per_version
\* meets them
RECURSIVE PipelineFilenames(_)
PipelineFilenames(actions) ==
    IF actions = <<>> THEN <<>>
    ELSE AllFilenames(actions[1].v.outputs) \o PipelineFilenames(Tail(actions))

\* validate_outputs_per_version with seen_files started afresh for each action
outputs_unique_per_action(p) ==
    LET feat == get_feature_flags_for_version(p.version)
        Repeats(files) == \E i, j \in 1..Len(files) : i < j /\ files[i] = files[j]
        bad == SelectSeq(p.actions, LAMBDA a : Repeats(AllFilenames(a.v.outputs)))
    IN  IF ~feat.ok \/ ~feat.UNIQUE_OUTPUT_PATH \/ bad = <<>> THEN <<>>
        ELSE <<Err("Output path is not unique", <<>>,
                   <<CHOOSE f \in Range(AllFilenames(bad[1].v.outputs)) :
                        Cardinality({n \in 1..Len(AllFilenames(bad[1].v.outputs)) :
                                        AllFilenames(bad[1].v.outputs)[n] = f}) > 1>>)>>

\* Pipeline.validate_outputs_per_version
validate_outputs_per_version(p) ==
    LET feat == get_feature_flags_for_version(p.version)
        files == PipelineFilenames(p.actions)
        Seen(j) == \E i \in 1..(j - 1) : files[i] = files[j]
    IN  IF ~feat.ok
        THEN <<Err("The latest version is, but got", <<>>, <<feat.latest, feat.got>>)>>
        ELSE IF ~feat.UNIQUE_OUTPUT_PATH THEN <<>>
        ELSE IF \A j \in 1..Len(files) : ~Seen(j) THEN <<>>
        ELSE LET j == CHOOSE j \in 1..Len(files) : Seen(j) /\ \A m \in 1..(j - 1) : ~Seen(m)
             IN  <<Err("Output path is not unique", <<>>, <<files[j]>>)>>

----------------------------------------------------------------------------
(* Input documents                                                         *)

Digits == <<"1", "2", "3", "4", "5", "6", "7", "8", "9">>

\* the id of the n-th action of a document: a1, a2, ...
ActionId(n) == <<"a", Digits[n]>>

\* an id no document declares
UnknownId == <<"z", "z">>

RunX == Str(<<"t", ":", "v">>)
RunY == Str(<<"u", ":", "v">>)
RunCohort == Str(<<"c", "o", "h", "o", "r", "t", "e", "x", "t", "r", "a", "c", "t", "o", "r", ":", "v", " ", "g", "e", "n", "e", "r", "a", "t", "e", "_", "c", "o", "h", "o", "r", "t">>)

File1 == Str(<<"o", "/", "a">>)
File2 == Str(<<"o", "/", "b">>)

NoNeeds == Absent
Needs(ids) == List([n \in 1..Len(ids) |-> Str(ids[n])])

\* outputs with one highly sensitive file
OneFile(f) == Map(<<KV("highly_sensitive", Map(<<KV("o", f)>>))>>)

RunValues == {RunX, RunY}
NeedsValues == {NoNeeds, Needs(<<ActionId(1)>>), Needs(<<UnknownId>>)}
OutputsValues == {OneFile(File1), OneFile(File2)}

\* well-formed actions, and actions that each depart from them in one place
ActionValues ==
    {ActionMap(r, NoNeeds, o) : r \in RunValues, o \in OutputsValues}
    \cup {ActionMap(RunY, n, OneFile(File2)) : n \in NeedsValues}
    \cup {ActionMap(RunX, Needs(<<UnknownId>>), OneFile(File1))}
    \cup {Null}
    \cup {ActionMap(r, NoNeeds, OneFile(File1)) :
            r \in {Absent, Str(<<>>), Str(<<" ">>), Str(<<"t">>), RunCohort}}
    \cup {ActionMap(RunX, NoNeeds, o) :
            o \in {Absent,
                   Str(<<"o">>),
                   Map(<<KV("highly_sensitive", Str(<<"o">>))>>),
                   Map(<<KV("highly_sensitive", Map(<<KV("o", File1), KV("p", File1)>>))>>),
                   Map(<<KV("highly_sensitive", Map(<<KV("o", File1)>>)),
                         KV("moderately_sensitive", Map(<<KV("p", File1)>>))>>)}}

VersionValues == {Absent, Null, NonNumeric} \cup {Num(n) : n \in 1..MaxVersion}

ExpectationsValues ==
    {Absent, ExpectationsMap(Absent), ExpectationsMap(Num(10)), ExpectationsMap(NonNumeric)}

ActionsValues ==
    UNION {{[i \in 1..n |-> KV(ActionId(i), f[i])] : f \in [1..n -> ActionValues]} :
              n \in 0..MaxActions}

Docs == [version : VersionValues, expectations : ExpectationsValues, actions : ActionsValues]

----------------------------------------------------------------------------
(* Construction of a Pipeline, validator by validator                      *)

NoModel == [version |-> Null, expectations |-> Null, actions |-> <<>>]

Init ==
    /\ doc \in Docs
    /\ values = doc
    /\ pc = "validate_version_exists"
    /\ errors = <<>>
    /\ model = NoModel
    /\ result = NoResult
    /\ calls = <<>>

\* a mode="before" model validator: an exception ends the construction, else the
\* mapping it returns goes to the validator next
Before(r, next) ==
    /\ IF r.crash # "" THEN pc' = "done" /\ result' = Crash(r.crash) /\ UNCHANGED values
       ELSE IF r.errs # <<>>
       THEN pc' = "done" /\ result' = Invalid(r.errs) /\ UNCHANGED values
       ELSE pc' = next /\ values' = r.val /\ UNCHANGED result
    /\ UNCHANGED <<doc, errors, model, calls>>

\* after the last field: the collected line errors are raised together, and only
\* without any do the mode="after" model validators run
FinishFields(errs) ==
    IF errs # <<>> THEN pc' = "done" /\ result' = Invalid(errs)
    ELSE pc' = "validate_actions" /\ UNCHANGED result

\* a validator of the field actions: its error ends the field
ActionsValidator(r, next) ==
    /\ IF r.errs # <<>>
       THEN errors' = errors \o r.errs /\ FinishFields(errors \o r.errs)
       ELSE IF next = "validate_actions"
       THEN UNCHANGED errors /\ FinishFields(errors)
       ELSE pc' = next /\ UNCHANGED <<errors, result>>
    /\ UNCHANGED <<doc, values, model, calls>>

\* a mode="after" model validator raising the errors errs (none: it returns)
After(errs, next) ==
    /\ IF errs # <<>> THEN pc' = "done" /\ result' = Invalid(errs)
       ELSE IF next = "done" THEN pc' = "done" /\ result' = Built(model)
       ELSE pc' = next /\ UNCHANGED result
    /\ UNCHANGED <<doc, values, errors, model, calls>>

ValidateVersionExists ==
    /\ pc = "validate_version_exists"
    /\ Before(validate_version_exists(values), "validate_actions_run")

ValidateActionsRun ==
    /\ pc = "validate_actions_run"
    /\ Before(validate_actions_run(values), "validate_expectations_per_version")

ValidateExpectationsPerVersion ==
    /\ pc = "validate_expectations_per_version"
    /\ Before(validate_expectations_per_version(values), "version")

VersionField ==
    /\ pc = "version"
    /\ LET r == validate_version_value(values.version)
       IN  /\ errors' = errors \o r.errs
           /\ model' = [model EXCEPT !.version = r.val]
    /\ pc' = "expectations"
    /\ UNCHANGED <<doc, values, result, calls>>

ExpectationsField ==
    /\ pc = "expectations"
    /\ LET r == ValidateExpectations(values.expectations)
       IN  /\ errors' = errors \o r.errs
           /\ model' = [model EXCEPT !.expectations = r.val]
    /\ pc' = "actions"
    /\ UNCHANGED <<doc, values, result, calls>>

ActionsField ==
    /\ pc = "actions"
    /\ LET r == ValidateActionsDict(values.actions, <<>>, <<>>)
       IN  IF r.crash # ""
           THEN pc' = "done" /\ result' = Crash(r.crash) /\ UNCHANGED <<errors, model>>
           ELSE IF r.errs # <<>>
           THEN /\ errors' = errors \o r.errs
                /\ FinishFields(errors \o r.errs)
                /\ UNCHANGED model
           ELSE /\ model' = [model EXCEPT !.actions = r.val]
                /\ pc' = "validate_unique_commands"
                /\ UNCHANGED <<errors, result>>
    /\ UNCHANGED <<doc, values, calls>>

ValidateUniqueCommands ==
    /\ pc = "validate_unique_commands"
    /\ ActionsValidator(validate_unique_commands(model.actions),
                        "validate_needs_are_comma_delimited")

ValidateNeedsAreCommaDelimited ==
    /\ pc = "validate_needs_are_comma_delimited"
    /\ ActionsValidator(validate_needs_are_comma_delimited(model.actions),
                        "validate_needs_exist")

ValidateNeedsExist ==
    /\ pc = "validate_needs_exist"
    /\ \E r \in validate_needs_exist(model.actions) :
           ActionsValidator(r, "validate_actions")

ValidateActions ==
    /\ pc = "validate_actions"
    /\ After(validate_actions(model.actions), "validate_outputs_per_version")

ValidateOutputsPerVersion ==
    /\ pc = "validate_outputs_per_version"
    /\ After(validate_outputs_per_version(model), "done")

Next ==
    \/ ValidateVersionExists
    \/ ValidateActionsRun
    \/ ValidateExpectationsPerVersion
    \/ VersionField
    \/ ExpectationsField
    \/ ActionsField
    \/ ValidateUniqueCommands
    \/ ValidateNeedsAreCommaDelimited
    \/ ValidateNeedsExist
    \/ ValidateActions
    \/ ValidateOutputsPerVersion

Spec == Init /\ [][Next]_vars

----------------------------------------------------------------------------
(* The feature flag resolver used on its own: a client asks for the flags  *)
(* of one version after another.                                           *)

NoDoc == [version |-> Absent, expectations |-> Absent, actions |-> <<>>]

FlagsInit ==
    /\ doc = NoDoc
    /\ values = NoDoc
    /\ pc = "resolver"
    /\ errors = <<>>
    /\ model = NoModel
    /\ result = NoResult
    /\ calls = <<>>

GetFeatureFlags ==
    /\ pc = "resolver"
    /\ Len(calls) < MaxCalls
    /\ \E version \in 1..MaxVersion :
           calls' = Append(calls, [version |-> version,
                                   flags |-> get_feature_flags_for_version(version)])
    /\ UNCHANGED <<doc, values, pc, errors, model, result>>

FlagsSpec == FlagsInit /\ [][GetFeatureFlags]_vars

----------------------------------------------------------------------------
(* Command (models.py, class Command): the properties derived from raw     *)

\* Command.parts: shlex.split(self.raw)
Command_parts(raw) == ShlexSplit(raw).parts

\* Command.name: parts[0].split(":")[0]
Command_name(raw) == SplitOn(Command_parts(raw)[1], ":")[1]

\* Command.version: parts[0].split(":")[1]
Command_version(raw) == SplitOn(Command_parts(raw)[1], ":")[2]

\* Command.args: " ".join(parts[1:])
Command_args(raw) == JoinWith(Tail(Command_parts(raw)), " ")

\* the first tokens and the arguments the run strings are made of
RunHeads ==
    {<<"t">>,
     <<"t", ":">>,
     <<"t", ":", "v">>,
     <<"t", ":", "v", "1">>,
     <<"t", ":", "v", "1", ".", "2">>,
     <<"t", ":", "d", "e", "v">>,
     <<"t", ":", "l", "a", "t", "e", "s", "t">>,
     <<"t", ":", "o", "t", "h", "e", "r">>,
     <<"t", ":", "v", "1", "x", "1">>,
     <<"t", ":", "a", ":", "b">>}

RunTails ==
    {<<>>,
     <<" ", "a">>,
     <<" ", " ", "a">>,
     <<" ", "'", "a", " ", "b", "'">>,
     <<" ", "a", " ", "b">>,
     <<" ", "\"", "a", "\"">>}

RunStrings == {h \o t : h \in RunHeads, t \in RunTails}

\* Action.run built from a run string, then its Command read
CommandInit ==
    /\ doc \in {[run |-> r] : r \in RunStrings}
    /\ values = NoDoc
    /\ pc = "parse_run_string"
    /\ errors = <<>>
    /\ model = NoModel
    /\ result = NoResult
    /\ calls = <<>>

ParseRunString ==
    /\ pc = "parse_run_string"
    /\ LET r == parse_run_string(doc.run)
       IN  IF r.crash # "" THEN pc' = "done" /\ result' = Crash(r.crash) /\ UNCHANGED model
           ELSE IF r.errs # <<>>
           THEN pc' = "done" /\ result' = Invalid(r.errs) /\ UNCHANGED model
           ELSE pc' = "Command" /\ model' = [raw |-> r.val] /\ UNCHANGED result
    /\ UNCHANGED <<doc, values, errors, calls>>

CommandProperties ==
    /\ pc = "Command"
    /\ result' = [kind |-> "Command",
                  raw |-> model.raw,
                  parts |-> Command_parts(model.raw),
                  name |-> Command_name(model.raw),
                  version |-> Command_version(model.raw),
                  args |-> Command_args(model.raw)]
    /\ pc' = "done"
    /\ UNCHANGED <<doc, values, errors, model, calls>>

CommandNext == ParseRunString \/ CommandProperties

CommandSpec == CommandInit /\ [][CommandNext]_vars

----------------------------------------------------------------------------
(* Pipelines of two actions whose run strings are equal, differ in spacing  *)
(* or quoting only, or differ in their tokens                              *)

SpacedRuns ==
    {<<"t", ":", "v", " ", "a">>,
     <<"t", ":", "v", " ", " ", "a">>,
     <<"t", ":", "v", " ", "'", "a", "'">>,
     <<"t", ":", "v", " ", "\"", "a", "\"">>,
     <<"t", ":", "v", " ", "a", " ", "b">>,
     <<"t", ":", "v", " ", "'", "a", " ", "b", "'">>,
     <<"u", ":", "v", " ", "a">>}

SpacedDocs ==
    {[version |-> Num(1),
      expectations |-> Absent,
      actions |-> <<KV(ActionId(1), ActionMap(Str(r1), NoNeeds, OneFile(File1))),
                    KV(ActionId(2), ActionMap(Str(r2), NoNeeds, OneFile(File2)))>>] :
        r1 \in SpacedRuns, r2 \in SpacedRuns}

UniqueCommandsInit ==
    /\ doc \in SpacedDocs
    /\ values = doc
    /\ pc = "validate_version_exists"
    /\ errors = <<>>
    /\ model = NoModel
    /\ result = NoResult
    /\ calls = <<>>

UniqueCommandsSpec == UniqueCommandsInit /\ [][Next]_vars

----------------------------------------------------------------------------
(* assert_valid_glob_pattern used on its own (validation.py)               *)

\* every string of at most n of these characters
RECURSIVE Words(_, _)
Words(chars, n) ==
    IF n = 0 THEN {<<>>}
    ELSE Words(chars, n - 1)
         \cup {Append(w, c) : w \in Words(chars, n - 1), c \in chars}

PathChars == {"a", ".", "/"}

MaxPatternLen == 4

Patterns ==
    Words(PathChars, MaxPatternLen)
    \cup {<<"a", "\\", "b">>,
          <<"a", "/", "*", "*", "/", "b">>,
          <<"a", "?">>,
          <<"/", "[", "a", "]", "b">>,
          <<"c", ":", "/", "a">>,
          <<"a", "/", "*", ".", "b">>,
          <<"m", "e", "t", "a", "d", "a", "t", "a">>,
          <<"m", "e", "t", "a", "d", "a", "t", "a", "/", "a">>,
          <<"m", "e", "t", "a", "d", "a", "t", "a", "b">>,
          <<"a", "\\", "?">>,
          <<"*", "*", "/">>,
          <<"[", "/">>,
          <<"m", "e", "t", "a", "d", "a", "t", "a", "/">>,
          <<"m", "e", "t", "a", "d", "a", "t", "a", "/", "/", "a">>,
          <<"m", "e", "t", "a", "d", "a", "t", "a", "/", "a", "\\">>,
          <<"c", ":", "/", "a", "/">>,
          <<"c", ":", "/", "/", "a">>,
          <<"/", "m", "e", "t", "a", "d", "a", "t", "a">>,
          <<"?", "/", ".", ".", "/", "a">>}

GlobInit ==
    /\ doc \in {[pattern |-> p] : p \in Patterns}
    /\ values = NoDoc
    /\ pc = "assert_valid_glob_pattern"
    /\ errors = <<>>
    /\ model = NoModel
    /\ result = NoResult
    /\ calls = <<>>

AssertValidGlobPattern ==
    /\ pc = "assert_valid_glob_pattern"
    /\ result' = IF assert_valid_glob_pattern(doc.pattern) = ""
                 THEN [kind |-> "valid"]
                 ELSE [kind |-> "InvalidPatternError",
                       reason |-> assert_valid_glob_pattern(doc.pattern)]
    /\ pc' = "done"
    /\ UNCHANGED <<doc, values, errors, model, calls>>

GlobSpec == GlobInit /\ [][AssertValidGlobPattern]_vars

----------------------------------------------------------------------------
(* Pipelines of one action whose outputs section has each of the three      *)
(* tiers, and a key that is no tier, absent, empty or with one file         *)

File3 == Str(<<"o", "/", "c">>)
File4 == Str(<<"o", "/", "d">>)

\* the entry of one key of an outputs section: none, an empty mapping, one file
TierEntries(key, f) ==
    {<<>>, <<KV(key, Map(<<>>))>>, <<KV(key, Map(<<KV("o", f)>>))>>}

OutputsSections ==
    {Map(h \o m \o l \o x) :
        h \in TierEntries("highly_sensitive", File1),
        m \in TierEntries("moderately_sensitive", File2),
        l \in TierEntries("minimally_sensitive", File3),
        x \in TierEntries("test", File4) \cup {<<KV("extra", Num(123))>>}}

OutputsDocs ==
    {[version |-> Num(1),
      expectations |-> Absent,
      actions |-> <<KV(ActionId(1), ActionMap(RunX, NoNeeds, o))>>] :
        o \in OutputsSections}

OutputsInit ==
    /\ doc \in OutputsDocs
    /\ values = doc
    /\ pc = "validate_version_exists"
    /\ errors = <<>>
    /\ model = NoModel
    /\ result = NoResult
    /\ calls = <<>>

OutputsSpec == OutputsInit /\ [][Next]_vars

----------------------------------------------------------------------------
(* add_config_to_run_command (legacy.py)                                   *)

\* the JSON text of a string: json.dumps escapes the double quote and the
\* backslash (the other characters of the inputs are written as they are)
RECURSIVE JsonEscape(_)
JsonEscape(s) ==
    IF s = <<>> THEN <<>>
    ELSE (IF s[1] \in {"\"", "\\"} THEN <<"\\", s[1]>> ELSE <<s[1]>>) \o JsonEscape(Tail(s))

JsonString(s) == <<"\"">> \o JsonEscape(s) \o <<"\"">>

\* the members of an object, "key": "value" separated by ", "
RECURSIVE JsonMembers(_)
JsonMembers(items) ==
    IF items = <<>> THEN <<>>
    ELSE JsonString(items[1].k) \o <<":", " ">> \o JsonString(items[1].v)
         \o (IF Len(items) > 1 THEN <<",", " ">> ELSE <<>>)
         \o JsonMembers(Tail(items))

\* json.dumps(config) for a mapping of strings to strings
json_dumps(config) == <<"{">> \o JsonMembers(config) \o <<"}">>

\* str.replace(old, new) for a one-character old
RECURSIVE Replace(_, _, _)
Replace(s, old, new) ==
    IF s = <<>> THEN <<>>
    ELSE (IF s[1] = old THEN new ELSE <<s[1]>>) \o Replace(Tail(s), old, new)

\* add_config_to_run_command without the escaping of single quotes
add_config_unescaped(run_command, config) ==
    run_command \o <<" ", "-", "-", "c", "o", "n", "f", "i", "g", " ", "'">>
        \o json_dumps(config) \o <<"'">>

add_config_to_run_command(run_command, config) ==
    run_command \o <<" ", "-", "-", "c", "o", "n", "f", "i", "g", " ", "'">>
        \o Replace(json_dumps(config), "'", <<"\\", "u", "0", "0", "2", "7">>) \o <<"'">>

\* run commands that shlex splits, with quoting and escaping
ConfigRuns ==
    {<<"t", ":", "v">>,
     <<"t", ":", "v", " ", "a">>,
     <<"t", ":", "v", " ", "'", "a", " ", "b", "'">>,
     <<"t", ":", "v", " ", "\"", "a", "\"", " ", "b">>,
     <<"t", ":", "v", " ", "a", "\\", " ", "b">>}

ConfigChars == {"a", "'", "\"", "\\", " "}

MaxValueLen == 2

\* configs: no key, one key, two keys, with every value of the characters above
Configs ==
    {<<>>}
    \cup {<<KV(<<"k">>, v)>> : v \in Words(ConfigChars, MaxValueLen)}
    \cup {<<KV(<<"k">>, v), KV(<<"'">>, <<"b">>)>> : v \in Words(ConfigChars, 1)}

ConfigInit ==
    /\ doc \in [run_command : ConfigRuns, config : Configs]
    /\ values = NoDoc
    /\ pc = "add_config_to_run_command"
    /\ errors = <<>>
    /\ model = NoModel
    /\ result = NoResult
    /\ calls = <<>>

AddConfigToRunCommand ==
    /\ pc = "add_config_to_run_command"
    /\ result' = [kind |-> "run_command",
                  run |-> add_config_to_run_command(doc.run_command, doc.config)]
    /\ pc' = "done"
    /\ UNCHANGED <<doc, values, errors, model, calls>>

ConfigSpec == ConfigInit /\ [][AddConfigToRunCommand]_vars

----------------------------------------------------------------------------
(* legacy.py: validate_project_and_set_defaults and get_action_specification *)
(* on a project dict: its actions are (id, action_spec) pairs, run is the   *)
(* string read as action_spec["run"]["run"], outputs the tiers set, each   *)
(* with its (output id, filename) pairs                                    *)

\* is_generate_cohort_command: version_found, 0 for None
VersionFound(args) ==
    IF Len(args) > 1 /\ args[2] \in {<<"g", "e", "n", "e", "r", "a", "t", "e", "_", "c", "o", "h", "o", "r", "t">>,
                                     <<"g", "e", "n", "e", "r", "a", "t", "e", "_", "d", "a", "t", "a", "s", "e", "t">>}
    THEN IF StartsWith(args[1], <<"c", "o", "h", "o", "r", "t", "e", "x", "t", "r", "a", "c", "t", "o", "r", ":">>) THEN 1
         ELSE IF \/ StartsWith(args[1], <<"c", "o", "h", "o", "r", "t", "e", "x", "t", "r", "a", "c", "t", "o", "r", "-", "v", "2", ":">>)
                 \/ StartsWith(args[1], <<"d", "a", "t", "a", "b", "u", "i", "l", "d", "e", "r", ":">>)
         THEN 2
         ELSE 0
    ELSE 0

\* is_generate_cohort_command(args, require_version), require_version 0 for None
is_generate_cohort_command(args, require_version) ==
    IF require_version = 0 THEN VersionFound(args) # 0
    ELSE VersionFound(args) = require_version

args_include(args, target_arg) ==
    \E n \in 1..Len(args) : args[n] = target_arg \/ StartsWith(args[n], target_arg \o <<"=">>)

\* PurePosixPath(filename).parent of a relative path
Parent(filename) ==
    IF \A i \in 1..Len(filename) : filename[i] # "/" THEN <<".">>
    ELSE SubSeq(filename, 1,
                (CHOOSE i \in 1..Len(filename) :
                    filename[i] = "/" /\ \A j \in (i + 1)..Len(filename) : filename[j] # "/") - 1)

\* get_output_dirs: the set of the directories of the filenames
get_output_dirs(output_spec) == {Parent(f) : f \in Range(AllFilenames(output_spec))}

DecDigits == <<"0", "1", "2", "3", "4", "5", "6", "7", "8", "9">>

\* str(n) for a natural number
RECURSIVE IntToStr(_)
IntToStr(n) ==
    IF n < 10 THEN <<DecDigits[n + 1]>>
    ELSE IntToStr(n \div 10) \o <<DecDigits[(n % 10) + 1]>>

ProjectValidationError(msg, action, detail) ==
    [kind |-> "ProjectValidationError", msg |-> msg, action |-> action, detail |-> detail]

\* validate_project_and_set_defaults counting the files of all tiers
validate_project_counting_files(project) ==
    LET bad == SelectSeq(project.actions,
                         LAMBDA a : /\ is_generate_cohort_command(ShlexSplit(a.v.run).parts, 0)
                                    /\ Len(AllFilenames(a.v.outputs)) # 1)
    IN  IF bad = <<>> THEN [kind |-> "project", project |-> project]
        ELSE ProjectValidationError("A generate_cohort action must have exactly one output",
                                    bad[1].k, <<Len(AllFilenames(bad[1].v.outputs))>>)

\* validate_project_and_set_defaults: the first action, in order, that is a
\* generate_cohort command and has len(action_config["outputs"]) # 1
validate_project_and_set_defaults(project) ==
    LET bad == SelectSeq(project.actions,
                         LAMBDA a : /\ is_generate_cohort_command(ShlexSplit(a.v.run).parts, 0)
                                    /\ Len(a.v.outputs) # 1)
    IN  IF bad = <<>> THEN [kind |-> "project", project |-> project]
        ELSE ProjectValidationError("A generate_cohort action must have exactly one output",
                                    bad[1].k, <<Len(bad[1].v.outputs)>>)

ActionSpecifiction(run, action_spec) ==
    [kind |-> "ActionSpecifiction",
     run |-> run,
     needs |-> IF action_spec.needs.t = "absent" THEN <<>> ELSE action_spec.needs.items,
     outputs |-> action_spec.outputs]

\* the cohortextractor branch appending --output-dir only to a command that
\* gives none
cohortextractor_keeps_given_output_dir(action_spec, run_args, run_command, dirs) ==
    IF args_include(run_args, <<"-", "-", "o", "u", "t", "p", "u", "t", "-", "d", "i", "r">>)
    THEN {ActionSpecifiction(run_command, action_spec)}
    ELSE IF Cardinality(dirs) # 1
    THEN {ProjectValidationError(
              "generate_cohort command should produce output in only one directory, found",
              <<>>, <<Cardinality(dirs), o>>) : o \in Orders(dirs)}
    ELSE {ActionSpecifiction(run_command \o <<" ", "-", "-", "o", "u", "t", "p", "u", "t", "-", "d", "i", "r", "=">> \o (CHOOSE d \in dirs : TRUE),
                             action_spec)}

\* the cohortextractor branch (legacy.py:90-118); dirs is get_output_dirs(outputs)
CohortextractorSpecification(action_spec, run_args, run_command, dirs) ==
    IF Cardinality(dirs) # 1
    THEN IF ~args_include(run_args, <<"-", "-", "o", "u", "t", "p", "u", "t", "-", "d", "i", "r">>)
         THEN {ProjectValidationError(
                   "generate_cohort command should produce output in only one directory, found",
                   <<>>, <<Cardinality(dirs), o>>) : o \in Orders(dirs)}
         ELSE {ActionSpecifiction(run_command, action_spec)}
    ELSE {ActionSpecifiction(
              run_command \o <<" ", "-", "-", "o", "u", "t", "p", "u", "t", "-", "d", "i", "r", "=">>
                  \o (CHOOSE d \in dirs : TRUE),
              action_spec)}

\* the run command with the dummy data arguments of the cohortextractor branch
DummyDataCommand(project, action_spec, using_dummy_data_backend, run_command) ==
    IF ~using_dummy_data_backend THEN run_command
    ELSE IF action_spec.dummy_data_file.t # "absent"
    THEN run_command \o <<" ", "-", "-", "d", "u", "m", "m", "y", "-", "d", "a", "t", "a", "-", "f", "i", "l", "e", "=">> \o action_spec.dummy_data_file.s
    ELSE run_command \o <<" ", "-", "-", "e", "x", "p", "e", "c", "t", "a", "t", "i", "o", "n", "s", "-", "p", "o", "p", "u", "l", "a", "t", "i", "o", "n", "=">> \o IntToStr(project.expectations.population_size)

\* the databuilder branch (legacy.py:120-139); output_files are all filenames
DatabuilderSpecification(action_spec, using_dummy_data_backend, run_command, output_files) ==
    IF using_dummy_data_backend /\ ~Contains(run_command, <<"-", "-", "d", "u", "m", "m", "y", "-", "d", "a", "t", "a", "-", "f", "i", "l", "e">>)
    THEN {ProjectValidationError("--dummy-data-file is required for a local run", <<>>, <<>>)}
    ELSE IF output_files = <<>> THEN {Crash("StopIteration")}
    ELSE IF ~Contains(run_command, output_files[1])
    THEN {ProjectValidationError("--output in run command and outputs must match", <<>>, <<>>)}
    ELSE {ActionSpecifiction(run_command, action_spec)}

\* sp is shlex.split(run_command)
SpecificationForArgs(project, action_spec, using_dummy_data_backend, run_command, sp) ==
    IF ~sp.ok THEN {Crash("ValueError")}
    ELSE IF is_generate_cohort_command(sp.parts, 1)
    THEN CohortextractorSpecification(
             action_spec, sp.parts,
             DummyDataCommand(project, action_spec, using_dummy_data_backend, run_command),
             get_output_dirs(action_spec.outputs))
    ELSE IF is_generate_cohort_command(sp.parts, 2)
    THEN DatabuilderSpecification(action_spec, using_dummy_data_backend, run_command,
                                  AllFilenames(action_spec.outputs))
    ELSE {ActionSpecifiction(run_command, action_spec)}

SpecificationForCommand(project, action_spec, using_dummy_data_backend, run_command) ==
    SpecificationForArgs(project, action_spec, using_dummy_data_backend, run_command,
                         ShlexSplit(run_command))

\* get_action_specification: the set of its possible outcomes (the order in
\* which the directories of an error are listed is that of a set)
get_action_specification(project, action_id, using_dummy_data_backend) ==
    IF action_id \notin Keys(project.actions)
    THEN {[kind |-> "UnknownActionError", action |-> action_id]}
    ELSE LET action_spec ==
                 project.actions[CHOOSE n \in 1..Len(project.actions) :
                                     project.actions[n].k = action_id].v
         IN  SpecificationForCommand(
                 project, action_spec, using_dummy_data_backend,
                 IF action_spec.config.t # "absent"
                 THEN add_config_to_run_command(action_spec.run, action_spec.config.items)
                 ELSE action_spec.run)

LegacyRuns ==
    {<<"c", "o", "h", "o", "r", "t", "e", "x", "t", "r", "a", "c", "t", "o", "r", ":", "v", " ", "g", "e", "n", "e", "r", "a", "t", "e", "_", "c", "o", "h", "o", "r", "t">>,
     <<"c", "o", "h", "o", "r", "t", "e", "x", "t", "r", "a", "c", "t", "o", "r", ":", "v", " ", "g", "e", "n", "e", "r", "a", "t", "e", "_", "c", "o", "h", "o", "r", "t", " ", "-", "-", "o", "u", "t", "p", "u", "t", "-", "d", "i", "r", "=", "x">>,
     <<"c", "o", "h", "o", "r", "t", "e", "x", "t", "r", "a", "c", "t", "o", "r", ":", "v", " ", "g", "e", "n", "e", "r", "a", "t", "e", "_", "c", "o", "h", "o", "r", "t", " ", "-", "-", "o", "u", "t", "p", "u", "t", "-", "d", "i", "r", " ", "x">>,
     <<"d", "a", "t", "a", "b", "u", "i", "l", "d", "e", "r", ":", "v", " ", "g", "e", "n", "e", "r", "a", "t", "e", "_", "d", "a", "t", "a", "s", "e", "t", " ", "-", "-", "o", "u", "t", "p", "u", "t", "=", "o", "/", "a">>,
     <<"d", "a", "t", "a", "b", "u", "i", "l", "d", "e", "r", ":", "v", " ", "g", "e", "n", "e", "r", "a", "t", "e", "_", "d", "a", "t", "a", "s", "e", "t", " ", "-", "-", "o", "u", "t", "p", "u", "t", "=", "o", "/", "a", "b">>,
     <<"d", "a", "t", "a", "b", "u", "i", "l", "d", "e", "r", ":", "v", " ", "g", "e", "n", "e", "r", "a", "t", "e", "_", "d", "a", "t", "a", "s", "e", "t", " ", "-", "-", "o", "u", "t", "p", "u", "t", "=", "x", "/", "o", "/", "a">>,
     <<"d", "a", "t", "a", "b", "u", "i", "l", "d", "e", "r", ":", "v", " ", "g", "e", "n", "e", "r", "a", "t", "e", "_", "d", "a", "t", "a", "s", "e", "t", " ", "-", "-", "o", "u", "t", "p", "u", "t", "=", "o", "/", "c">>,
     <<"c", "o", "h", "o", "r", "t", "e", "x", "t", "r", "a", "c", "t", "o", "r", "-", "v", "2", ":", "v", " ", "g", "e", "n", "e", "r", "a", "t", "e", "_", "c", "o", "h", "o", "r", "t", " ", "-", "-", "o", "u", "t", "p", "u", "t", "=", "o", "/", "a", " ", "-", "-", "d", "u", "m", "m", "y", "-", "d", "a", "t", "a", "-", "f", "i", "l", "e", "=", "d">>,
     <<"d", "a", "t", "a", "b", "u", "i", "l", "d", "e", "r", ":", "v", " ", "g", "e", "n", "e", "r", "a", "t", "e", "_", "d", "a", "t", "a", "s", "e", "t">>,
     <<"t", ":", "v", " ", "a">>}

FileOA == <<"o", "/", "a">>
FileOB == <<"o", "/", "b">>
FileQB == <<"q", "/", "b">>

\* outputs as Pipeline.dict(exclude_unset=True) gives them
LegacyOutputs ==
    {<<KV("highly_sensitive", <<KV("o", FileOA)>>)>>,
     <<KV("highly_sensitive", <<KV("o", FileOA), KV("p", FileOB)>>)>>,
     <<KV("highly_sensitive", <<KV("o", FileOA), KV("p", FileQB)>>)>>,
     <<KV("highly_sensitive", <<KV("o", FileOA)>>), KV("moderately_sensitive", <<KV("p", FileOB)>>)>>,
     <<KV("highly_sensitive", <<KV("o", FileOA)>>), KV("moderately_sensitive", <<KV("p", FileQB)>>)>>}

Projects ==
    {[expectations |-> [population_size |-> 10],
      actions |-> <<KV(ActionId(1),
                       [run |-> r, config |-> c, dummy_data_file |-> d,
                        needs |-> Absent, outputs |-> o])>>] :
        r \in LegacyRuns,
        c \in {Absent, Map(<<KV(<<"k">>, <<"v">>)>>)},
        d \in {Absent, Str(<<"d">>)},
        o \in LegacyOutputs}

LegacyInit ==
    /\ doc \in Projects
    /\ values = NoDoc
    /\ pc = "validate_project_and_set_defaults"
    /\ errors = <<>>
    /\ model = NoModel
    /\ result = NoResult
    /\ calls = <<>>

ValidateProjectAndSetDefaults ==
    /\ pc = "validate_project_and_set_defaults"
    /\ LET r == validate_project_and_set_defaults(doc)
       IN  IF r.kind = "project"
           THEN pc' = "get_action_specification" /\ UNCHANGED result
           ELSE pc' = "done" /\ result' = r
    /\ UNCHANGED <<doc, values, errors, model, calls>>

GetActionSpecification ==
    /\ pc = "get_action_specification"
    /\ \E action_id \in {ActionId(1), UnknownId}, using_dummy_data_backend \in BOOLEAN :
           /\ values' = [action_id |-> action_id,
                         using_dummy_data_backend |-> using_dummy_data_backend]
           /\ result' \in get_action_specification(doc, action_id, using_dummy_data_backend)
    /\ pc' = "done"
    /\ UNCHANGED <<doc, errors, model, calls>>

LegacyNext == ValidateProjectAndSetDefaults \/ GetActionSpecification

LegacySpec == LegacyInit /\ [][LegacyNext]_vars

----------------------------------------------------------------------------
(* Documents whose needs lists hold well-formed and malformed entries: the *)
(* first action is well-formed, the second one lists up to two needs       *)

NeedsEntries ==
    {ActionId(1),
     UnknownId,
     <<"a", "1", " ", "a", "2">>,
     <<"a", "1", "\t", "a", "2">>,
     <<"z", "z", " ", "y", "y">>,
     <<"y", "y">>}

NeedsLists == {<<>>} \cup {<<e>> : e \in NeedsEntries}
                     \cup {<<e, f>> : e \in NeedsEntries, f \in NeedsEntries}

NeedsDocs ==
    {[version |-> Num(1),
      expectations |-> Absent,
      actions |-> <<KV(ActionId(1), ActionMap(RunX, NoNeeds, OneFile(File1))),
                    KV(ActionId(2), ActionMap(RunY, Needs(n), OneFile(File2)))>>] :
        n \in NeedsLists}

NeedsInit ==
    /\ doc \in NeedsDocs
    /\ values = doc
    /\ pc = "validate_version_exists"
    /\ errors = <<>>
    /\ model = NoModel
    /\ result = NoResult
    /\ calls = <<>>

NeedsSpec == NeedsInit /\ [][Next]_vars

----------------------------------------------------------------------------
(* The same input validated again: each outcome is kept in calls and the   *)
(* construction starts afresh on the same document, as in another run      *)

MaxRuns == 2

ValidateAgain ==
    /\ pc = "done"
    /\ Len(calls) < MaxRuns - 1
    /\ calls' = Append(calls, result)
    /\ values' = doc
    /\ pc' = "validate_version_exists"
    /\ errors' = <<>>
    /\ model' = NoModel
    /\ result' = NoResult
    /\ UNCHANGED doc

AgainNext == Next \/ ValidateAgain

AgainSpec == NeedsInit /\ [][AgainNext]_vars

----------------------------------------------------------------------------
(* loading.py and main.py. The YAML parser is a library: its outcome for   *)
(* the text given, a tree or one of its exceptions, is part of the input.   *)

\* a position mark of the parser; name is the stream it points into
Mark(name) == [t |-> "mark", name |-> name]

\* the name the parser gives to a text that is a str
UnicodeString == Str(<<"<", "u", "n", "i", "c", "o", "d", "e", " ", "s", "t", "r", "i", "n", "g", ">">>)

\* marked_error_classes
MarkedClasses == {"MarkedYAMLError", "MarkedYAMLWarning", "MarkedYAMLFutureWarning"}

\* the base classes parse_yaml_file catches, and their subclasses above
UnmarkedClasses == {"YAMLError", "YAMLStreamError", "YAMLWarning", "YAMLFutureWarning"}

\* the exceptions of the parser: the marked ones carry context_mark,
\* problem_mark and note, each of which may be None
ParserExceptions ==
    [class : MarkedClasses,
     context_mark : {Null, Mark(UnicodeString)},
     problem_mark : {Null, Mark(UnicodeString)},
     note : {Null, Str(<<"n", "o", "t", "e">>)}]
    \cup [class : UnmarkedClasses]

\* make_yaml_error_more_helpful(exc, name): an attribute assigned on None
\* raises AttributeError
make_yaml_error_more_helpful(exc, name) ==
    IF name.t = "str" /\ name.s # <<>>
    THEN IF exc.context_mark = Null \/ exc.problem_mark = Null
         THEN Escapes("AttributeError")
         ELSE Valid([exc EXCEPT !.note = Null,
                                !.context_mark = Mark(name),
                                !.problem_mark = Mark(name)])
    ELSE Valid([exc EXCEPT !.note = Null])

\* str(exc): the lines of the message that depend on the marks and the note
StrOfException(exc) ==
    IF exc.class \notin MarkedClasses THEN <<exc.class>>
    ELSE (IF exc.context_mark # Null /\ exc.problem_mark = Null
          THEN <<exc.context_mark.name.s>> ELSE <<>>)
         \o (IF exc.problem_mark # Null THEN <<exc.problem_mark.name.s>> ELSE <<>>)
         \o (IF exc.note # Null THEN <<exc.note.s>> ELSE <<>>)

\* raise exceptions.YAMLError(str(exc)) from exc
YAMLError(exc) == [kind |-> "YAMLError", message |-> StrOfException(exc), cause |-> exc]

\* the except clause of parse_yaml_file; h is the outcome of
\* make_yaml_error_more_helpful(exc, filename)
WrapParserException(h) ==
    IF h.crash # "" THEN Crash(h.crash) ELSE YAMLError(h.val)

\* parse_yaml_file(data, filename); loaded is the outcome of PARSER.load(data)
parse_yaml_file(loaded, filename) ==
    IF loaded.kind = "tree" THEN [kind |-> "tree", tree |-> loaded.tree]
    ELSE IF loaded.exc.class \in MarkedClasses
    THEN WrapParserException(make_yaml_error_more_helpful(loaded.exc, filename))
    ELSE YAMLError(loaded.exc)

\* the trees the parser returns: mappings, and what is not a mapping
LoadedDocs ==
    {[version |-> v, expectations |-> Absent,
      actions |-> <<KV(ActionId(1), ActionMap(RunX, n, OneFile(File1)))>>] :
        v \in {Absent, NonNumeric, Num(1)}, n \in {NoNeeds, Needs(<<UnknownId>>)}}

NotMappings == {Null, List(<<>>), Str(<<"a">>)}

Filenames == {Null, Str(<<>>), Str(<<"f", ".", "y", "a", "m", "l">>)}

LoadInputs ==
    [loaded : {[kind |-> "tree", tree |-> t] : t \in LoadedDocs \cup NotMappings}
              \cup {[kind |-> "raise", exc |-> e] : e \in ParserExceptions},
     filename : Filenames]

LoadInit ==
    /\ doc \in LoadInputs
    /\ values = NoDoc
    /\ pc = "parse_yaml_file"
    /\ errors = <<>>
    /\ model = NoModel
    /\ result = NoResult
    /\ calls = <<>>

\* load_pipeline: parsed_data = parse_yaml_file(pipeline_config, filename=filename)
ParseYamlFile ==
    /\ pc = "parse_yaml_file"
    /\ LET r == parse_yaml_file(doc.loaded, doc.filename)
       IN  IF r.kind = "tree"
           THEN pc' = "Pipeline" /\ values' = r.tree /\ UNCHANGED result
           ELSE pc' = "done" /\ result' = r /\ UNCHANGED values
    /\ UNCHANGED <<doc, errors, model, calls>>

\* load_pipeline: return Pipeline(**parsed_data); what is no mapping cannot
\* be unpacked
UnpackParsedData ==
    /\ pc = "Pipeline"
    /\ IF "version" \in DOMAIN values
       THEN pc' = "validate_version_exists" /\ UNCHANGED result
       ELSE pc' = "done" /\ result' = Crash("TypeError")
    /\ UNCHANGED <<doc, values, errors, model, calls>>

LoadNext == ParseYamlFile \/ UnpackParsedData \/ Next

LoadSpec == LoadInit /\ [][LoadNext]_vars

----------------------------------------------------------------------------
(* Pipeline.all_actions and legacy.get_all_actions                         *)

RUN_ALL_COMMAND == <<"r", "u", "n", "_", "a", "l", "l">>

\* the list comprehension without its condition
all_actions_unfiltered(actions) == [n \in 1..Len(actions) |-> actions[n].k]

\* [action for action in self.actions.keys() if action != RUN_ALL_COMMAND]
all_actions(actions) ==
    SelectSeq([n \in 1..Len(actions) |-> actions[n].k],
              LAMBDA action : action # RUN_ALL_COMMAND)

\* legacy.get_all_actions(project): the same comprehension on project["actions"]
get_all_actions(project) == all_actions(project.actions)

\* the ids the actions of a document are drawn from
IdValues == {ActionId(1), ActionId(2), RUN_ALL_COMMAND, RUN_ALL_COMMAND \o <<"2">>}

\* the run strings of the actions of a document, by position
RunsByPosition == <<RunX, RunY, Str(<<"w", ":", "v">>)>>

FilesByPosition == <<File1, File2, Str(<<"o", "/", "c">>)>>

\* documents of up to three well-formed actions with different ids
AllActionsDocs ==
    {[version |-> Num(1),
      expectations |-> Absent,
      actions |-> [i \in 1..Len(ids) |->
                      KV(ids[i], ActionMap(RunsByPosition[i], NoNeeds,
                                           OneFile(FilesByPosition[i])))]] :
        ids \in {f \in UNION {[1..k -> IdValues] : k \in 0..Len(RunsByPosition)} :
                    \A i, j \in DOMAIN f : f[i] = f[j] => i = j}}

AllActionsInit ==
    /\ doc \in AllActionsDocs
    /\ values = doc
    /\ pc = "validate_version_exists"
    /\ errors = <<>>
    /\ model = NoModel
    /\ result = NoResult
    /\ calls = <<>>

\* the caller reads all_actions of the Pipeline it was given, and
\* get_all_actions of the project dict made of it
AllActions ==
    /\ pc = "done"
    /\ result.kind = "Pipeline"
    /\ calls' = <<[all_actions |-> all_actions(result.pipeline.actions),
                   get_all_actions |-> get_all_actions(result.pipeline)]>>
    /\ pc' = "all_actions"
    /\ UNCHANGED <<doc, values, errors, model, result>>

AllActionsNext == Next \/ AllActions

AllActionsSpec == AllActionsInit /\ [][AllActionsNext]_vars

----------------------------------------------------------------------------
(* The selection of the extraction validators by validate_actions: which   *)
(* of the two patterns match a raw run string                              *)

\* the validators validate_actions calls for an action with this run string
AppliedValidators(raw) ==
    (IF cohortextractor_pat(raw) THEN {"validate_cohortextractor_outputs"} ELSE {})
    \cup (IF databuilder_pat(raw) THEN {"validate_databuilder_outputs"} ELSE {})

FamilyTools ==
    {<<"d", "a", "t", "a", "b", "u", "i", "l", "d", "e", "r">>,
     <<"e", "h", "r", "q", "l">>,
     <<"c", "o", "h", "o", "r", "t", "e", "x", "t", "r", "a", "c", "t", "o", "r">>,
     <<"c", "o", "h", "o", "r", "t", "e", "x", "t", "r", "a", "c", "t", "o", "r", "-", "v", "2">>,
     <<"t">>}

\* tags with which parse_run_string accepts the run string
FamilyTags ==
    {<<":", "v">>, <<":", "v", "1", ".", "0">>}

FamilySubcommands ==
    {<<"g", "e", "n", "e", "r", "a", "t", "e", "-", "d", "a", "t", "a", "s", "e", "t">>,
     <<"g", "e", "n", "e", "r", "a", "t", "e", "_", "d", "a", "t", "a", "s", "e", "t">>,
     <<"g", "e", "n", "e", "r", "a", "t", "e", "_", "c", "o", "h", "o", "r", "t">>,
     <<"g", "e", "n", "e", "r", "a", "t", "e", "+", "d", "a", "t", "a", "s", "e", "t">>,
     <<"r", "u", "n">>,
     <<"g", "e", "n", "e", "r", "a", "t", "e", "-", "d", "a", "t", "a", "s", "e", "t", " ", "-", "-", "o", "u", "t", "p", "u", "t", "=", "o", "/", "a">>}

\* run strings: a tool, a tag, and nothing more or a subcommand after one
\* or two spaces
FamilyRuns ==
    {tool \o tag : tool \in FamilyTools, tag \in FamilyTags}
    \cup {tool \o tag \o sep \o sub :
            tool \in FamilyTools, tag \in FamilyTags,
            sep \in {<<" ">>, <<" ", " ">>}, sub \in FamilySubcommands}

FamilyInit ==
    /\ doc \in {[run |-> r] : r \in FamilyRuns}
    /\ values = NoDoc
    /\ pc = "validate_actions"
    /\ errors = <<>>
    /\ model = NoModel
    /\ result = NoResult
    /\ calls = <<>>

\* the inner loop of validate_actions for one action
MatchValidators ==
    /\ pc = "validate_actions"
    /\ result' = [kind |-> "validators", applied |-> AppliedValidators(doc.run)]
    /\ pc' = "done"
    /\ UNCHANGED <<doc, values, errors, model, calls>>

FamilySpec == FamilyInit /\ [][MatchValidators]_vars

----------------------------------------------------------------------------
(* The caller's tree and the mapping the validators receive (main.py,      *)
(* models.py): mappings are objects of a store, held by reference          *)

\* the object at an address of the store
Ref(at) == [t |-> "ref", at |-> at]

\* the mapping m read through its references
Deref(store, m) ==
    [version |-> m.version,
     expectations |-> IF m.expectations.t = "ref" THEN store[m.expectations.at]
                      ELSE m.expectations,
     actions |-> store[m.actions.at]]

\* the store holding the tree d of a caller: the top-level mapping at tree, its
\* nested mappings at expectations and at actions; kwargs and fresh are the
\* objects a construction allocates
StoreOf(d) ==
    [tree |-> [version |-> d.version,
               expectations |-> IF d.expectations.t = "absent" THEN Absent
                                ELSE Ref("expectations"),
               actions |-> Ref("actions")],
     expectations |-> d.expectations,
     actions |-> d.actions,
     kwargs |-> Null,
     fresh |-> Null]

\* Pipeline(**parsed_data): the keyword arguments are collected in a new
\* mapping, whose values are the very objects of the caller's mapping
unpack(store) == [store EXCEPT !.kwargs = store.tree]

\* the default written into the mapping the key expectations refers to
expectations_updated_in_place(store) ==
    IF store.kwargs.expectations.t = "ref"
    THEN [store EXCEPT ![store.kwargs.expectations.at] = ExpectationsMap(Num(1000))]
    ELSE [store EXCEPT !.fresh = ExpectationsMap(Num(1000)),
                       !.kwargs = [@ EXCEPT !.expectations = Ref("fresh")]]

\* values["expectations"] = {"population_size": 1000}: the key of the mapping
\* received is bound to a new mapping
expectations_assign(store) ==
    [store EXCEPT !.fresh = ExpectationsMap(Num(1000)),
                  !.kwargs = [@ EXCEPT !.expectations = Ref("fresh")]]

\* the writes of Pipeline.validate_expectations_per_version
expectations_per_version_store(store) ==
    LET version == store.kwargs.version
    IN  IF ~IsFloat(version) THEN store
        ELSE LET feat == get_feature_flags_for_version(version.n)
             IN  IF feat.ok /\ ~feat.EXPECTATIONS_POPULATION
                 THEN expectations_assign(store)
                 ELSE store

FrameActions ==
    {<<>>,
     <<KV(ActionId(1), ActionMap(RunX, NoNeeds, OneFile(File1)))>>,
     <<KV(ActionId(1), ActionMap(Str(<<>>), NoNeeds, OneFile(File1)))>>,
     <<KV(ActionId(1), Null)>>}

FrameDocs ==
    [version : VersionValues, expectations : ExpectationsValues, actions : FrameActions]

\* doc is the store, calls keeps the store as it was before the call
FrameInit ==
    /\ doc \in {StoreOf(d) : d \in FrameDocs}
    /\ values = Null
    /\ pc = "unpack"
    /\ errors = <<>>
    /\ model = NoModel
    /\ result = NoResult
    /\ calls = <<doc>>

Unpack ==
    /\ pc = "unpack"
    /\ doc' = unpack(doc)
    /\ values' = Deref(doc', doc'.kwargs)
    /\ pc' = "validate_version_exists"
    /\ UNCHANGED <<errors, model, result, calls>>

\* a mode="before" model validator on the store: store is the store it leaves
StoreBefore(r, store, next) ==
    /\ IF r.crash # "" THEN pc' = "done" /\ result' = Crash(r.crash)
       ELSE IF r.errs # <<>> THEN pc' = "done" /\ result' = Invalid(r.errs)
       ELSE pc' = next /\ UNCHANGED result
    /\ doc' = store
    /\ values' = Deref(store, store.kwargs)
    /\ UNCHANGED <<errors, model, calls>>

StoreValidateVersionExists ==
    /\ pc = "validate_version_exists"
    /\ doc.kwargs # Null
    /\ StoreBefore(validate_version_exists(values), doc, "validate_actions_run")

StoreValidateActionsRun ==
    /\ pc = "validate_actions_run"
    /\ doc.kwargs # Null
    /\ StoreBefore(validate_actions_run(values), doc, "validate_expectations_per_version")

StoreValidateExpectationsPerVersion ==
    /\ pc = "validate_expectations_per_version"
    /\ doc.kwargs # Null
    /\ StoreBefore(validate_expectations_per_version(values),
                   expectations_per_version_store(doc), "version")

FrameNext ==
    \/ Unpack
    \/ StoreValidateVersionExists
    \/ StoreValidateActionsRun
    \/ StoreValidateExpectationsPerVersion
    \/ VersionField
    \/ ExpectationsField
    \/ ActionsField
    \/ ValidateUniqueCommands
    \/ ValidateNeedsAreCommaDelimited
    \/ ValidateNeedsExist
    \/ ValidateActions
    \/ ValidateOutputsPerVersion

FrameSpec == FrameInit /\ [][FrameNext]_vars

----------------------------------------------------------------------------
(* The release version (scripts/get-version.py)                            *)

\* the largest counter a version written back may carry
MaxCounter == 12

\* the number of months that pass while the script is in use
MaxMonths == 2

\* \d on every character of s
IsDigits(s) == \A n \in 1..Len(s) : s[n] \in Range(DecDigits)

DigitValue(c) == (CHOOSE n \in 1..10 : DecDigits[n] = c) - 1

\* int(s) for a string of digits
RECURSIVE StrToInt(_)
StrToInt(s) ==
    IF s = <<>> THEN 0
    ELSE StrToInt(SubSeq(s, 1, Len(s) - 1)) * 10 + DigitValue(s[Len(s)])

\* version_pat.match(s): four digits, any character but a newline, two digits,
\* any character but a newline, one digit, from the start of s; what follows is
\* not looked at
version_pat(s) ==
    IF /\ Len(s) >= 9
       /\ IsDigits(SubSeq(s, 1, 4))
       /\ s[5] # "\n"
       /\ IsDigits(SubSeq(s, 6, 7))
       /\ s[8] # "\n"
       /\ IsDigits(<<s[9]>>)
    THEN [matched |-> TRUE, year |-> SubSeq(s, 1, 4), month |-> SubSeq(s, 6, 7),
          counter |-> <<s[9]>>]
    ELSE [matched |-> FALSE]

\* date(year, month, 1) is a date
IsDate(year, month) == year \in 1..9999 /\ month \in 1..12

\* a > b for two dates on the first of their months
DateAfter(a, b) == a.year > b.year \/ (a.year = b.year /\ a.month > b.month)

\* str.zfill(2) of a string of digits
zfill(s) == IF Len(s) < 2 THEN <<"0">> \o s ELSE s

\* the script ended with an exception, nothing printed
Raised(exc) == [kind |-> exc]
\* the script printed the line out
Printed(out) == [kind |-> "printed", out |-> out]

\* main, on the content of the version file and the month of today
main(version_string, today) ==
    LET match == version_pat(version_string)
    IN  IF ~match.matched THEN Raised("VersionParseError")
        ELSE LET current_counter == StrToInt(match.counter)
                 year == StrToInt(match.year)
                 month == StrToInt(match.month)
             IN  IF ~IsDate(year, month) THEN Raised("ValueError")
                 ELSE IF DateAfter([year |-> year, month |-> month], today)
                 THEN Raised("UnexpectedVersion")
                 ELSE LET counter == IF today = [year |-> year, month |-> month]
                                     THEN current_counter + 1
                                     ELSE 1
                      IN  Printed(IntToStr(today.year) \o <<".">>
                                  \o zfill(IntToStr(today.month)) \o <<".">>
                                  \o IntToStr(counter))

FirstMonth == [year |-> 2026, month |-> 11]

NextMonth(d) ==
    IF d.month = 12 THEN [year |-> d.year + 1, month |-> 1]
    ELSE [year |-> d.year, month |-> d.month + 1]

MonthsSince(d) == (d.year - FirstMonth.year) * 12 + d.month - FirstMonth.month

VersionFiles ==
    {IntToStr(y) \o <<sep>> \o zfill(IntToStr(m)) \o <<sep>> \o IntToStr(c) :
        y \in {2025, 2026, 2027}, m \in {0, 1, 11, 12, 13}, sep \in {".", "-"},
        c \in {0, 1, 8, 9}}
    \cup {<<>>,
          <<"v">>,
          <<"2", "0", "2", "6", ".", "1", "1">>,
          <<"2", "0", "2", "6", ".", "1", ".", "1">>,
          <<"2", "0", "2", "6", ".", "1", "1", ".", "x">>,
          <<"2", "0", "2", "6", "\n", "1", "1", ".", "1">>,
          <<"v", "2", "0", "2", "6", ".", "1", "1", ".", "1">>}

\* doc is the version file and the month of today; values is what the last
\* invocation read
VersionInit ==
    /\ doc \in [version_string : VersionFiles, today : {FirstMonth}]
    /\ values = Null
    /\ pc = "main"
    /\ errors = <<>>
    /\ model = NoModel
    /\ result = NoResult
    /\ calls = <<>>

Main ==
    /\ pc = "main"
    /\ result' = main(doc.version_string, doc.today)
    /\ values' = doc
    /\ pc' = "exit"
    /\ UNCHANGED <<doc, errors, model, calls>>

\* the counter of a printed line: the number after its second separator
PrintedCounter(out) == StrToInt(SubSeq(out, 9, Len(out)))

\* the printed version becomes the content of the version file
WriteVersion ==
    /\ pc = "exit"
    /\ result.kind = "printed"
    /\ PrintedCounter(result.out) <= MaxCounter
    /\ doc' = [doc EXCEPT !.version_string = result.out]
    /\ pc' = "main"
    /\ UNCHANGED <<values, errors, model, result, calls>>

\* a month passes between two invocations
MonthPasses ==
    /\ pc = "main"
    /\ MonthsSince(doc.today) < MaxMonths
    /\ doc' = [doc EXCEPT !.today = NextMonth(@)]
    /\ UNCHANGED <<values, pc, errors, model, result, calls>>

VersionNext == Main \/ WriteVersion \/ MonthPasses

VersionSpec == VersionInit /\ [][VersionNext]_vars

----------------------------------------------------------------------------
(* Properties                                                              *)

\* the construction ended with a ValidationError one of whose lines is this
HasError(r, msg, action, detail) ==
    /\ r.kind = "ValidationError"
    /\ \E n \in 1..Len(r.errors) :
           /\ r.errors[n].msg = msg
           /\ r.errors[n].action = action
           /\ r.errors[n].detail = detail

\* the input gives action n a run string
HasRun(n) ==
    /\ doc.actions[n].v.t = "map"
    /\ doc.actions[n].v.run.t = "str"

\* action j of the input has the run string of an action declared before it
C1_Repeats(j) ==
    \E i \in 1..(j - 1) :
        HasRun(i) /\ HasRun(j) /\ doc.actions[i].v.run.s = doc.actions[j].v.run.s

C1_Later ==
    CHOOSE j \in 1..Len(doc.actions) : C1_Repeats(j) /\ \A m \in 1..(j - 1) : ~C1_Repeats(m)

C1_Earlier ==
    CHOOSE i \in 1..(C1_Later - 1) :
        /\ doc.actions[i].v.run.s = doc.actions[C1_Later].v.run.s
        /\ \A m \in 1..(i - 1) : doc.actions[m].v.run.s # doc.actions[C1_Later].v.run.s

\* C1: a document in which two actions have identical run strings never yields a
\* Pipeline; and once its actions have each been constructed and
\* validate_unique_commands has run, the construction has failed with the
\* duplicate-command error naming the first action, in declaration order, that
\* repeats a run string, and the earlier action that first used that string.
C1_DuplicateCommand ==
    (\E j \in 1..Len(doc.actions) : C1_Repeats(j)) =>
        /\ result.kind # "Pipeline"
        /\ (model.actions # <<>> /\ pc # "validate_unique_commands") =>
               /\ pc = "done"
               /\ HasError(result, "has the same 'run' command as other actions",
                           doc.actions[C1_Later].k, <<doc.actions[C1_Earlier].k>>)

C1_Witness ==
    /\ pc = "done"
    /\ Len(doc.actions) = 2
    /\ doc.actions[1].v = ActionMap(RunX, NoNeeds, OneFile(File1))
    /\ doc.actions[2].v = ActionMap(RunX, NoNeeds, OneFile(File2))
    /\ HasError(result, "has the same 'run' command as other actions",
                ActionId(2), <<ActionId(1)>>)

\* the needs the input gives action n that are no key of its actions mapping
C2_Unknown(n) ==
    IF doc.actions[n].v.t = "map" /\ doc.actions[n].v.needs.t = "list"
    THEN {doc.actions[n].v.needs.items[m].s : m \in 1..Len(doc.actions[n].v.needs.items)}
             \ Keys(doc.actions)
    ELSE {}

C2_Failing == SelectSeq([n \in 1..Len(doc.actions) |-> n], LAMBDA n : C2_Unknown(n) # {})

\* the lines name the actions with unknown needs, in declaration order, each with
\* exactly its unknown needs
C2_Names(lines) ==
    /\ Len(lines) = Len(C2_Failing)
    /\ \A n \in 1..Len(lines) :
           /\ lines[n].k = doc.actions[C2_Failing[n]].k
           /\ Range(lines[n].v) = C2_Unknown(C2_Failing[n])
           /\ Len(lines[n].v) = Cardinality(C2_Unknown(C2_Failing[n]))

\* C2: in every Pipeline that is returned, each entry of each action's needs is a
\* key of the actions mapping; and when validate_needs_exist runs on a document
\* with a needs entry that names no action, the construction fails with the
\* error that names every referencing action with its unknown names.
C2_DependencyClosure ==
    [][/\ result'.kind = "Pipeline" =>
              \A n \in 1..Len(result'.pipeline.actions) :
                  Range(result'.pipeline.actions[n].v.needs) \subseteq Keys(result'.pipeline.actions)
       /\ (pc = "validate_needs_exist" /\ C2_Failing # <<>>) =>
              /\ pc' = "done"
              /\ result'.kind = "ValidationError"
              /\ LET e == result'.errors[Len(result'.errors)]
                 IN  /\ e.msg = "One or more actions is referencing unknown actions in its needs list"
                     /\ C2_Names(e.detail)
      ]_vars

C2_Witness ==
    /\ result.kind = "Pipeline"
    /\ Len(result.pipeline.actions) = 2
    /\ result.pipeline.actions[2].v.needs = <<ActionId(1)>>

\* the filenames of the Pipeline under construction, and one declared twice
C3_Files == PipelineFilenames(model.actions)

C3_Twice(f) == \E i, j \in 1..Len(C3_Files) : i < j /\ C3_Files[i] = f /\ C3_Files[j] = f

\* C3: when validate_outputs_per_version runs on a Pipeline in which an output
\* filename is declared twice (in one tier, in two tiers of an action, or in two
\* actions), then for version >= 2 the construction fails with the error
\* 'Output path <path> is not unique' for such a path, and for version < 2 the
\* Pipeline is returned with both entries; without a repeated filename the
\* Pipeline is returned at every version.
C3_UniqueOutputPath ==
    [][pc = "validate_outputs_per_version" =>
          IF (\E f \in Range(C3_Files) : C3_Twice(f)) /\ model.version >= 2
          THEN /\ result'.kind = "ValidationError"
               /\ Len(result'.errors) = 1
               /\ result'.errors[1].msg = "Output path is not unique"
               /\ Len(result'.errors[1].detail) = 1
               /\ C3_Twice(result'.errors[1].detail[1])
          ELSE /\ result' = Built(model)
               /\ PipelineFilenames(result'.pipeline.actions) = C3_Files
      ]_vars

C3_Witness ==
    /\ pc = "done"
    /\ doc.version = Num(2)
    /\ Len(doc.actions) = 2
    /\ doc.actions[1].v = ActionMap(RunX, NoNeeds, OneFile(File1))
    /\ doc.actions[2].v = ActionMap(RunY, NoNeeds, OneFile(File1))
    /\ HasError(result, "Output path is not unique", <<>>, <<File1.s>>)


\* C4 (as claimed): the construction ends with a Pipeline or with a
\* ValidationError, and no other exception escapes it.
C4_OnlyValidationErrors == result.kind \in {"none", "Pipeline", "ValidationError"}

\* C5: a Pipeline returned for a document of a version below 3 has
\* expectations.population_size = 1000, whatever the document's expectations.
C5_DefaultPopulationSize ==
    (result.kind = "Pipeline" /\ doc.version.t = "num" /\ doc.version.n < 3) =>
        result.pipeline.expectations.population_size = 1000

C5_Witness ==
    /\ result.kind = "Pipeline"
    /\ doc.version = Num(2)
    /\ doc.expectations = ExpectationsMap(Num(10))
    /\ result.pipeline.expectations.population_size = 1000

\* the construction has just failed with this one error
C6_FailsWith(msg) ==
    /\ pc' = "done"
    /\ result'.kind = "ValidationError"
    /\ Len(result'.errors) = 1
    /\ result'.errors[1].msg = msg

\* C6: when validate_expectations_per_version runs on a document of version 3,
\* the construction fails with 'Project must include expectations section' if the
\* expectations key is absent, fails with 'Project expectations section must
\* include population_size section' if expectations has no population_size, and
\* otherwise goes on with the document unchanged.
C6_ExpectationsRequired ==
    [][(pc = "validate_expectations_per_version" /\ values.version = Num(3)) =>
          IF values.expectations.t = "absent"
          THEN C6_FailsWith("Project must include expectations section")
          ELSE IF values.expectations.population_size.t = "absent"
          THEN C6_FailsWith("Project expectations section must include population_size section")
          ELSE pc' = "version" /\ result' = NoResult /\ values' = values
      ]_vars

C6_Witness ==
    /\ pc = "done"
    /\ doc.version = Num(3)
    /\ doc.expectations = ExpectationsMap(Absent)
    /\ HasError(result, "Project expectations section must include population_size section",
                <<>>, <<>>)

\* C7 (as claimed): a document of version 4 with an expectations section never
\* yields a Pipeline.
C7_ExpectationsObsolete ==
    (doc.version = Num(4) /\ doc.expectations.t # "absent") => result.kind # "Pipeline"

\* the flags returned for the known versions among the calls made
C8_Known == SelectSeq(calls, LAMBDA c : c.version <= LATEST_VERSION)

C8_Monotonic(flag, upto) ==
    \A i, j \in 1..Len(C8_Known) :
        (C8_Known[i].version < C8_Known[j].version /\ C8_Known[j].version <= upto) =>
            (C8_Known[i].flags[flag] => C8_Known[j].flags[flag])

C9_VersionAboveLatest ==
    [][/\ (/\ pc = "validate_expectations_per_version"
           /\ IsFloat(values.version)
           /\ values.version.n > LATEST_VERSION) =>
              /\ C6_FailsWith("The latest version is, but got")
              /\ result'.errors[1].detail = <<LATEST_VERSION, values.version.n>>
       /\ result'.kind = "Pipeline" =>
              /\ doc.version = Num(result'.pipeline.version)
              /\ result'.pipeline.version <= LATEST_VERSION
      ]_vars

C9_Witness ==
    /\ pc = "done"
    /\ doc.version = Num(LATEST_VERSION + 1)
    /\ HasError(result, "The latest version is, but got", <<>>,
                <<LATEST_VERSION, LATEST_VERSION + 1>>)

\* the construction ended with a ValidationError that has a line with this text
C10_Reports(msg) ==
    /\ result.kind = "ValidationError"
    /\ \E n \in 1..Len(result.errors) : result.errors[n].msg = msg

\* C10 (as claimed): for a document without a version key or with a null
\* version, what the construction reports about the version is 'Project file
\* must have a version attribute ...' naming the latest known version.
C10_VersionAttributeRequired ==
    (/\ pc = "done"
     /\ doc.version.t \in {"absent", "null"}
     /\ \/ C10_Reports("Project file must have a version attribute")
        \/ C10_Reports("version must be a number between 1 and")) =>
        HasError(result, "Project file must have a version attribute", <<>>,
                 <<LATEST_VERSION>>)

\* the first shell token of the run string given
C11_Token == ShlexSplit(doc.run).parts[1]

C11_IsNumber(s) ==
    /\ s # <<>>
    /\ \A n \in 1..Len(s) : s[n] \in {"0", "1", "2", "3", "4", "5", "6", "7", "8", "9"}

\* latest, dev, or v followed by dot-separated numbers
C11_AcceptableTag(tag) ==
    \/ tag = <<"l", "a", "t", "e", "s", "t">>
    \/ tag = <<"d", "e", "v">>
    \/ /\ Len(tag) >= 2
       /\ tag[1] = "v"
       /\ \A n \in 1..Len(SplitOn(Drop(tag, 1), ".")) :
              C11_IsNumber(SplitOn(Drop(tag, 1), ".")[n])

\* C11 (as claimed): a run string is accepted only if its first token is
\* name:tag with tag latest, dev, or v followed by dot-separated numbers; any
\* other first token is rejected with '<name> must have a version specified'.
C11_VersionTag ==
    pc = "done" =>
        IF /\ FirstIndex(C11_Token, ":") # 0
           /\ C11_AcceptableTag(Partition(C11_Token, ":")[3])
        THEN result.kind = "Command"
        ELSE HasError(result, "must have a version specified", <<>>,
                      <<Partition(C11_Token, ":")[1]>>)

\* C12 (as claimed): the Command of an accepted run string has name the part of
\* its first token before the first ':', version the whole part after that
\* first ':', so that name, ':' and version make up the first token again;
\* parts are the shell tokens and args the tokens after the first joined by
\* single spaces.
C12_FirstColonDecomposition ==
    result.kind = "Command" =>
        /\ result.name = Partition(result.parts[1], ":")[1]
        /\ result.version = Partition(result.parts[1], ":")[3]
        /\ result.name \o <<":">> \o result.version = result.parts[1]
        /\ result.parts = ShlexSplit(doc.run).parts
        /\ result.args = JoinWith(Tail(result.parts), " ")

\* C13: two actions collide in validate_unique_commands exactly when their raw
\* run strings are identical: with identical strings the construction fails
\* with the duplicate-command error, and with strings that differ, also when
\* they differ in spacing or quoting only and have the same shell tokens, the
\* Pipeline is returned with both actions.
C13_TextualEquality ==
    pc = "done" =>
        IF doc.actions[1].v.run.s = doc.actions[2].v.run.s
        THEN HasError(result, "has the same 'run' command as other actions",
                      ActionId(2), <<ActionId(1)>>)
        ELSE /\ result.kind = "Pipeline"
             /\ Len(result.pipeline.actions) = 2
             /\ result.pipeline.actions[1].v.run = doc.actions[1].v.run.s
             /\ result.pipeline.actions[2].v.run = doc.actions[2].v.run.s

C13_Witness ==
    /\ pc = "done"
    /\ doc.actions[1].v.run.s # doc.actions[2].v.run.s
    /\ ShlexSplit(doc.actions[1].v.run.s).parts = ShlexSplit(doc.actions[2].v.run.s).parts
    /\ result.kind = "Pipeline"
    /\ Len(result.pipeline.actions) = 2

\* C14 (as claimed): a pattern that contains '..', a backslash, '**', '?' or
\* '[', or that begins or ends with '/', is refused with an InvalidPatternError
\* that carries a reason, also when '..' is part of a name.
C14_UnsafePatternsRefused ==
    (/\ pc = "done"
     /\ \/ Contains(doc.pattern, <<".", ".">>)
        \/ Contains(doc.pattern, <<"\\">>)
        \/ Contains(doc.pattern, <<"*", "*">>)
        \/ Contains(doc.pattern, <<"?">>)
        \/ Contains(doc.pattern, <<"[">>)
        \/ StartsWith(doc.pattern, <<"/">>)
        \/ EndsWith(doc.pattern, <<"/">>))
    => (result.kind = "InvalidPatternError" /\ result.reason # "")

\* the outputs section given to the one action of the document
C15_Section == doc.actions[1].v.outputs.items

\* the keys of the section that are sensitivity tiers, and the others
C15_IsTier(key) == \E i \in 1..Len(OutputTiers) : OutputTiers[i] = key

\* C15 (as claimed): the Outputs of a Pipeline that is returned has a tier with
\* at least one file; an outputs section without tiers, or whose tiers are all
\* empty mappings, is rejected with 'must specify at least one output of:
\* highly_sensitive, moderately_sensitive, minimally_sensitive'.
C15_AtLeastOneOutput ==
    pc = "done" =>
        /\ result.kind = "Pipeline" =>
               \E n \in 1..Len(result.pipeline.actions[1].v.outputs) :
                   result.pipeline.actions[1].v.outputs[n].v # <<>>
        /\ (\A n \in 1..Len(C15_Section) :
                C15_IsTier(C15_Section[n].k) /\ C15_Section[n].v = Map(<<>>)) =>
               HasError(result,
                        "must specify at least one output of: highly_sensitive, moderately_sensitive, minimally_sensitive",
                        ActionId(1), <<>>)

\* C16 (as claimed): an outputs section with a key that is none of the three
\* tiers never yields a Pipeline, whether that key is its only key or stands
\* beside a tier that declares a file.
C16_UnknownTierRejected ==
    (/\ \E n \in 1..Len(C15_Section) : ~C15_IsTier(C15_Section[n].k)
     /\ \/ Len(C15_Section) = 1
        \/ \E n \in 1..Len(C15_Section) :
               /\ C15_IsTier(C15_Section[n].k)
               /\ C15_Section[n].v.t = "map"
               /\ C15_Section[n].v.items # <<>>)
    => result.kind # "Pipeline"

\* action n of the document runs the cohortextractor image
C18_UsesCohortextractor(n) ==
    /\ HasRun(n)
    /\ StartsWith(doc.actions[n].v.run.s,
                  <<"c", "o", "h", "o", "r", "t", "e", "x", "t", "r", "a", "c", "t", "o", "r", ":">>)

\* C18 (as claimed): a document of version 4 or later with an action that runs
\* the cohortextractor image never yields a Pipeline.
C18_CohortextractorWithdrawn ==
    (/\ doc.version.t = "num"
     /\ doc.version.n >= 4
     /\ \E n \in 1..Len(doc.actions) : C18_UsesCohortextractor(n))
    => result.kind # "Pipeline"

\* a JSON object of strings read back: key is the key being read, cur the
\* string being read, which tells whether cur is a key ("k") or a value ("v")
RECURSIVE C20_JsonScan(_, _, _, _, _, _, _)
C20_JsonScan(s, i, mode, which, key, cur, items) ==
    IF i > Len(s)
    THEN [ok |-> mode = "end", items |-> items]
    ELSE LET c == s[i]
         IN  CASE mode = "str" ->
                    IF c = "\"" THEN
                        IF which = "k"
                        THEN C20_JsonScan(s, i + 1, "colon", which, cur, <<>>, items)
                        ELSE C20_JsonScan(s, i + 1, "more", which, key, <<>>,
                                          Append(items, KV(key, cur)))
                    ELSE IF c = "\\" THEN C20_JsonScan(s, i + 1, "esc", which, key, cur, items)
                    ELSE C20_JsonScan(s, i + 1, "str", which, key, Append(cur, c), items)
               [] mode = "esc" ->
                    IF c \in {"\"", "\\", "/"}
                    THEN C20_JsonScan(s, i + 1, "str", which, key, Append(cur, c), items)
                    ELSE IF c = "u" /\ SubSeq(s, i + 1, i + 4) = <<"0", "0", "2", "7">>
                    THEN C20_JsonScan(s, i + 5, "str", which, key, Append(cur, "'"), items)
                    ELSE [ok |-> FALSE, items |-> <<>>]
               [] c = " " -> C20_JsonScan(s, i + 1, mode, which, key, cur, items)
               [] mode = "open" /\ c = "{" ->
                    C20_JsonScan(s, i + 1, "first", which, key, cur, items)
               [] mode = "first" /\ c = "}" ->
                    C20_JsonScan(s, i + 1, "end", which, key, cur, items)
               [] mode \in {"first", "key"} /\ c = "\"" ->
                    C20_JsonScan(s, i + 1, "str", "k", key, <<>>, items)
               [] mode = "colon" /\ c = ":" ->
                    C20_JsonScan(s, i + 1, "value", which, key, cur, items)
               [] mode = "value" /\ c = "\"" ->
                    C20_JsonScan(s, i + 1, "str", "v", key, <<>>, items)
               [] mode = "more" /\ c = "," ->
                    C20_JsonScan(s, i + 1, "key", which, key, cur, items)
               [] mode = "more" /\ c = "}" ->
                    C20_JsonScan(s, i + 1, "end", which, key, cur, items)
               [] OTHER -> [ok |-> FALSE, items |-> <<>>]

C20_JsonLoads(s) == C20_JsonScan(s, 1, "open", "k", <<>>, <<>>, <<>>)

\* C20: add_config_to_run_command(r, c) is r followed by " --config '<json>'",
\* and splitting it as the shell does gives the tokens of r, then --config,
\* then one token that reads back as JSON to c.
C20_ConfigIsOneToken ==
    pc = "done" =>
        /\ StartsWith(result.run,
                      doc.run_command \o <<" ", "-", "-", "c", "o", "n", "f", "i", "g", " ", "'">>)
        /\ EndsWith(result.run, <<"'">>)
        /\ ShlexSplit(result.run).ok
        /\ LET parts == ShlexSplit(result.run).parts
               given == ShlexSplit(doc.run_command).parts
           IN  /\ Len(parts) = Len(given) + 2
               /\ SubSeq(parts, 1, Len(given)) = given
               /\ parts[Len(given) + 1] = <<"-", "-", "c", "o", "n", "f", "i", "g">>
               /\ C20_JsonLoads(parts[Len(given) + 2]) = [ok |-> TRUE, items |-> doc.config]

C20_Witness ==
    /\ pc = "done"
    /\ doc.run_command = <<"t", ":", "v", " ", "'", "a", " ", "b", "'">>
    /\ doc.config = <<KV(<<"k">>, <<"'", "a">>)>>
    /\ Contains(result.run, <<"\\", "u", "0", "0", "2", "7">>)
    /\ Len(ShlexSplit(result.run).parts) = 4


----------------------------------------------------------------------------
\* the run arguments of the only action of a project
C17_Args == ShlexSplit(doc.actions[1].v.run).parts

C17_Validated == pc \in {"get_action_specification", "done"}

C17_Refused(count) ==
    /\ pc = "done"
    /\ result = ProjectValidationError("A generate_cohort action must have exactly one output",
                                       doc.actions[1].k, <<count>>)

C19_OutputValues(args) ==
    {SubSeq(args[n], 10, Len(args[n])) :
        n \in {m \in 1..Len(args) : StartsWith(args[m], <<"-", "-", "o", "u", "t", "p", "u", "t", "=">>)}}

\* C19: a dataset-generation action whose --output value is not equal to its
\* single declared output file fails with "--output in run command and
\* outputs must match", also when the value merely contains the filename
C19_OutputMustMatch ==
    (/\ pc = "done"
     /\ "action_id" \in DOMAIN values
     /\ values.action_id = doc.actions[1].k
     /\ ~values.using_dummy_data_backend
     /\ is_generate_cohort_command(C17_Args, 2)
     /\ Len(AllFilenames(doc.actions[1].v.outputs)) = 1
     /\ \E x \in C19_OutputValues(C17_Args) : x # AllFilenames(doc.actions[1].v.outputs)[1])
    => result = ProjectValidationError("--output in run command and outputs must match",
                                       <<>>, <<>>)


----------------------------------------------------------------------------
\* the needs entries of action n of the input that contain whitespace
C21_Malformed(n) ==
    IF doc.actions[n].v.needs.t # "list" THEN <<>>
    ELSE SelectSeq([i \in 1..Len(doc.actions[n].v.needs.items) |->
                        doc.actions[n].v.needs.items[i].s],
                   LAMBDA dep : \E i \in 1..Len(dep) : dep[i] \in WS)

\* the actions of the input with such an entry, each with its entries
C21_Offending ==
    LET bad == SelectSeq([n \in 1..Len(doc.actions) |-> n],
                         LAMBDA n : C21_Malformed(n) # <<>>)
    IN  [i \in 1..Len(bad) |-> KV(doc.actions[bad[i]].k, C21_Malformed(bad[i]))]

\* C21: a document, valid but for its needs, in which a needs entry contains
\* whitespace is rejected with the error "needs actions should be separated
\* with commas" naming each offending action with its malformed entries as
\* written, and with no error about unknown actions
C21_WhitespaceNeedsRejected ==
    (pc = "done" /\ C21_Offending # <<>>)
    => result = Invalid(<<Err("needs actions should be separated with commas", <<>>,
                              C21_Offending)>>)


----------------------------------------------------------------------------
\* C22: validation is deterministic: every validation of the same input,
\* in the same run or in another one, ends with an equal Pipeline or with
\* the same error with the same message text
C22_Deterministic ==
    pc = "done" => \A n \in 1..Len(calls) : calls[n] = result


----------------------------------------------------------------------------
\* C23: load_pipeline ends with a Pipeline or raises ProjectValidationError
\* and nothing else: with the parser's message when the text is not
\* well-formed YAML, and with a message starting with "Invalid project" and
\* the validation error as its cause when the parsed tree fails validation
\* (the YAMLError of parse_yaml_file, which load_pipeline lets through, is
\* counted as a ProjectValidationError here)
C23_OnlyProjectValidationError ==
    pc = "done"
    => \/ result.kind = "Pipeline"
       \/ /\ result.kind \in {"ProjectValidationError", "YAMLError"}
          /\ doc.loaded.kind = "raise" => result.message = StrOfException(result.cause)
          /\ doc.loaded.kind = "tree"
                => /\ StartsWith(result.message, <<"I", "n", "v", "a", "l", "i", "d", " ", "p", "r", "o", "j", "e", "c", "t">>)
                   /\ result.cause.kind = "ValidationError"


----------------------------------------------------------------------------
\* the filename given to parse_yaml_file is a non-empty string
C28_Named == doc.filename.t = "str" /\ doc.filename.s # <<>>

\* the parser's exception carries both marks
C28_HasMarks(exc) ==
    exc.class \in MarkedClasses /\ exc.context_mark # Null /\ exc.problem_mark # Null

\* C28: every exception of the parser becomes a YAMLError whose cause is that
\* exception, with or without a filename: with both marks and a filename the
\* marks are renamed to the filename and the note is cleared; an exception
\* that lacks a mark, or has none, is wrapped as it is and raises nothing else
C28_ParserFailuresWrapped ==
    (pc = "done" /\ doc.loaded.kind = "raise")
    => /\ result.kind = "YAMLError"
       /\ result.message = StrOfException(result.cause)
       /\ IF C28_HasMarks(doc.loaded.exc)
          THEN result.cause =
                   [doc.loaded.exc EXCEPT
                       !.note = Null,
                       !.context_mark = IF C28_Named THEN Mark(doc.filename) ELSE @,
                       !.problem_mark = IF C28_Named THEN Mark(doc.filename) ELSE @]
          ELSE IF doc.loaded.exc.class \in MarkedClasses
          THEN result.cause \in {doc.loaded.exc, [doc.loaded.exc EXCEPT !.note = Null]}
          ELSE result.cause = doc.loaded.exc


----------------------------------------------------------------------------
\* the ids of the actions of the input, in declaration order
C24_Ids == [n \in 1..Len(doc.actions) |-> doc.actions[n].k]

\* the place of an id among the declared ids
C24_Place(id) == CHOOSE n \in 1..Len(C24_Ids) : C24_Ids[n] = id

\* list holds every declared id but run_all, once, in declaration order
C24_DeclaredButRunAll(list) ==
    /\ \A i \in 1..Len(list) : list[i] # RUN_ALL_COMMAND /\ list[i] \in Range(C24_Ids)
    /\ \A n \in 1..Len(C24_Ids) : C24_Ids[n] # RUN_ALL_COMMAND => C24_Ids[n] \in Range(list)
    /\ \A i, j \in 1..Len(list) : i < j => C24_Place(list[i]) < C24_Place(list[j])
    /\ doc.actions = <<>> => list = <<>>

\* C24: all_actions (and get_all_actions) is the list of the action ids in
\* declaration order without the reserved id run_all, nothing else removed
\* or moved, and the empty list for an empty actions mapping
C24_AllActions ==
    pc = "all_actions"
    => /\ C24_DeclaredButRunAll(calls[1].all_actions)
       /\ C24_DeclaredButRunAll(calls[1].get_all_actions)

C24_Witness ==
    /\ pc = "all_actions"
    /\ Len(doc.actions) = 3
    /\ doc.actions[2].k = RUN_ALL_COMMAND
    /\ calls[1].all_actions = <<doc.actions[1].k, doc.actions[3].k>>


----------------------------------------------------------------------------
\* the rules of the glob pattern validator in the order claimed, each with
\* the reasons it reports and whether the pattern of the input violates it
C25_Rules ==
    <<[reasons |-> {"contains back slashes"},
       violated |-> \E i \in 1..Len(doc.pattern) : doc.pattern[i] = "\\"],
      [reasons |-> {"contains '**'", "contains '?'", "contains '['"},
       violated |-> \/ \E i \in 1..Len(doc.pattern) : doc.pattern[i] \in {"?", "["}
                    \/ \E i \in 1..(Len(doc.pattern) - 1) :
                           doc.pattern[i] = "*" /\ doc.pattern[i + 1] = "*"],
      [reasons |-> {"looks like a directory"},
       violated |-> doc.pattern # <<>> /\ doc.pattern[Len(doc.pattern)] = "/"],
      [reasons |-> {"is not in standard form"},
       violated |-> normpath(doc.pattern) # doc.pattern],
      [reasons |-> {"should not include the metadata directory"},
       violated |-> SplitOn(doc.pattern, "/")[1] = metadata],
      [reasons |-> {"is an absolute path"},
       violated |-> is_absolute(doc.pattern)]>>

C25_Violated == {n \in 1..Len(C25_Rules) : C25_Rules[n].violated}

\* C25: the reason reported is that of the earliest violated rule in the
\* order backslash, unsupported wildcard, trailing separator, non-normal
\* form, metadata directory, absolute path; without a violated rule the
\* pattern is accepted
C25_FirstFailingRuleWins ==
    pc = "done"
    => IF C25_Violated = {} THEN result.kind = "valid"
       ELSE /\ result.kind = "InvalidPatternError"
            /\ \E n \in C25_Violated :
                   /\ \A m \in C25_Violated : n <= m
                   /\ result.reason \in C25_Rules[n].reasons

\* a pattern that violates three rules and is refused for the first of them
C25_Witness ==
    /\ pc = "done"
    /\ C25_Violated = {3, 4, 6}
    /\ result = [kind |-> "InvalidPatternError", reason |-> "looks like a directory"]


----------------------------------------------------------------------------
\* the words of the run string of the input
C26_Words == SplitOn(doc.run, " ")

\* the first word is databuilder:<tag> or ehrql:<tag> with a tag
C26_DatasetTool ==
    \E tool \in {<<"d", "a", "t", "a", "b", "u", "i", "l", "d", "e", "r">>, <<"e", "h", "r", "q", "l">>} :
        StartsWith(C26_Words[1], tool \o <<":">>) /\ Len(C26_Words[1]) > Len(tool) + 1

\* the word after it, whatever the spaces between, begins as the
\* subcommand generate-dataset or generate_dataset
C26_DatasetSubcommand ==
    \E n \in 2..Len(C26_Words) :
        /\ \A m \in 2..(n - 1) : C26_Words[m] = <<>>
        /\ \/ StartsWith(C26_Words[n], <<"g", "e", "n", "e", "r", "a", "t", "e", "-", "d", "a", "t", "a", "s", "e", "t">>)
           \/ StartsWith(C26_Words[n], <<"g", "e", "n", "e", "r", "a", "t", "e", "_", "d", "a", "t", "a", "s", "e", "t">>)

\* C26: at most one of the two validators is applied to a run string, and
\* the dataset-generation validator is applied exactly to the run strings
\* databuilder:<tag> or ehrql:<tag> followed by generate-dataset or
\* generate_dataset; a databuilder run with another subcommand gets none
C26_FamiliesPrecise ==
    pc = "done"
    => /\ Cardinality(result.applied) <= 1
       /\ "validate_databuilder_outputs" \in result.applied
              => C26_DatasetTool /\ C26_DatasetSubcommand
       /\ (C26_DatasetTool /\ Len(C26_Words) > 1 /\ C26_Words[2] # <<>> /\ C26_DatasetSubcommand)
              => "validate_databuilder_outputs" \in result.applied


----------------------------------------------------------------------------
\* get_action_specification has run for the action of the project, whose
\* command is cohortextractor:<tag> generate_cohort
C27_Specified ==
    /\ pc = "done"
    /\ "action_id" \in DOMAIN values
    /\ values.action_id = doc.actions[1].k
    /\ is_generate_cohort_command(C17_Args, 1)

\* the directories of the declared output files
C27_Dirs ==
    {JoinWith(SubSeq(SplitOn(f, "/"), 1, Len(SplitOn(f, "/")) - 1), "/") :
        f \in Range(AllFilenames(doc.actions[1].v.outputs))}

\* the number of --output-dir flags, bare or with =, among the words of a command
C27_Flags(command) ==
    Cardinality({n \in 1..Len(ShlexSplit(command).parts) :
                    \/ ShlexSplit(command).parts[n] = <<"-", "-", "o", "u", "t", "p", "u", "t", "-", "d", "i", "r">>
                    \/ StartsWith(ShlexSplit(command).parts[n], <<"-", "-", "o", "u", "t", "p", "u", "t", "-", "d", "i", "r", "=">>)})

\* the command is the original, with what the config and the dummy data
\* add to it, and after that this suffix and nothing more
C27_Extends(command, suffix) ==
    /\ StartsWith(command, doc.actions[1].v.run)
    /\ EndsWith(command, suffix)
    /\ C27_Flags(command) = C27_Flags(doc.actions[1].v.run) + C27_Flags(suffix)
    /\ (doc.actions[1].v.config.t = "absent" /\ ~values.using_dummy_data_backend)
           => command = doc.actions[1].v.run \o suffix

\* the three cases of the output directory handling
C27_Cases ==
    /\ Cardinality(C27_Dirs) = 1
           => /\ result.kind = "ActionSpecifiction"
              /\ \E d \in C27_Dirs : C27_Extends(result.run, <<" ", "-", "-", "o", "u", "t", "p", "u", "t", "-", "d", "i", "r", "=">> \o d)
    /\ (Cardinality(C27_Dirs) > 1 /\ C27_Flags(doc.actions[1].v.run) > 0)
           => /\ result.kind = "ActionSpecifiction"
              /\ C27_Extends(result.run, <<>>)
    /\ (Cardinality(C27_Dirs) > 1 /\ C27_Flags(doc.actions[1].v.run) = 0)
           => /\ result.kind = "ProjectValidationError"
              /\ result.msg = "generate_cohort command should produce output in only one directory, found"
              /\ result.detail[1] = Cardinality(C27_Dirs)
              /\ Range(result.detail[2]) = C27_Dirs

C29_CallerObjects(store) ==
    [tree |-> store.tree, expectations |-> store.expectations, actions |-> store.actions]

\* C29: when a construction has ended, with a Pipeline or with an error, the
\* caller's mapping and the mappings nested in it are equal to what they were
\* before the call.
C29_InputUnchanged ==
    pc = "done" => C29_CallerObjects(doc) = C29_CallerObjects(calls[1])

\* a Pipeline with the default of 1000 was built from a tree of version 2 whose
\* expectations give 10, through a new mapping
C29_Witness ==
    /\ pc = "done"
    /\ result.kind = "Pipeline"
    /\ result.pipeline.expectations.population_size = 1000
    /\ calls[1].tree.version = Num(2)
    /\ calls[1].expectations = ExpectationsMap(Num(10))
    /\ doc.fresh = ExpectationsMap(Num(1000))
    /\ doc.kwargs.expectations = Ref("fresh")

\* the mapping handed on by validate_expectations_per_version is the one its
\* model on values returns
C29_StoreAgreesWithValues ==
    pc = "version" =>
        values = validate_expectations_per_version(Deref(calls[1], calls[1].tree)).val

\* the version file is YYYY.MM.c: a year of four digits, a month of two and a
\* counter of one or more, separated by dots, the month being one of the year
C30_WellFormed(s) ==
    LET parts == SplitOn(s, ".")
    IN  /\ Len(parts) = 3
        /\ Len(parts[1]) = 4 /\ IsDigits(parts[1])
        /\ Len(parts[2]) = 2 /\ IsDigits(parts[2])
        /\ Len(parts[3]) >= 1 /\ IsDigits(parts[3])
        /\ IsDate(StrToInt(parts[1]), StrToInt(parts[2]))

C30_Date(s) ==
    [year |-> StrToInt(SplitOn(s, ".")[1]), month |-> StrToInt(SplitOn(s, ".")[2])]

C30_Counter(s) == StrToInt(SplitOn(s, ".")[3])

C30_Line(date, counter) ==
    JoinWith(<<IntToStr(date.year), zfill(IntToStr(date.month)), IntToStr(counter)>>, ".")

\* a version of the current month is followed by the one of the next counter
C30_SameMonth ==
    (pc = "exit" /\ C30_WellFormed(values.version_string)
                 /\ C30_Date(values.version_string) = values.today) =>
        result = Printed(C30_Line(values.today, C30_Counter(values.version_string) + 1))

\* a version of an earlier month is followed by the first of the current month
C30_MonthChanged ==
    (pc = "exit" /\ C30_WellFormed(values.version_string)
                 /\ DateAfter(values.today, C30_Date(values.version_string))) =>
        result = Printed(C30_Line(values.today, 1))

\* a version of a later month raises UnexpectedVersion and prints nothing
C30_FutureMonth ==
    (pc = "exit" /\ C30_WellFormed(values.version_string)
                 /\ DateAfter(C30_Date(values.version_string), values.today)) =>
        result = Raised("UnexpectedVersion")

\* C30: an invocation on a version file YYYY.MM.c of the current month prints
\* the same year and month with the counter c + 1, whatever the number of
\* digits of c; on one of an earlier month it prints the current month with the
\* counter 1; on one of a later month it raises UnexpectedVersion.
C30_CounterIncreases ==
    /\ C30_SameMonth
    /\ C30_MonthChanged
    /\ C30_FutureMonth

====
